---- MODULE Spec2Model ----
(***************************************************************************)
(* Resistive touch panel pipeline of the RA8875 driver: the trimmed-mean   *)
(* sample filter, the touch state machine with its watchdog ticker, the    *)
(* three point calibration solver and the calibrated coordinate query.     *)
(* Modelled from src/RA8875_Touch.cpp.                                     *)
(***************************************************************************)
EXTENDS Integers, Sequences, FiniteSets, TLC

VARIABLES
    touchState,     \* TouchCode_t RA8875::touchState
    touchSample,    \* int RA8875::touchSample, index into xbuf/ybuf
    touchTimer,     \* Timer RA8875::touchTimer, microseconds since its last reset
    tpMatrix,       \* tpMatrix_t RA8875::tpMatrix, the active calibration matrix
    xbuf, ybuf,     \* static int xbuf[TPBUFSIZE], ybuf[TPBUFSIZE] of TouchPanelA2DFiltered
    lastX, lastY,   \* static int lastX, lastY of TouchPanelA2DFiltered
    panelTouched,   \* bool RA8875::panelTouched
    touchInfo0,     \* touchInfo[0]: its coordinates and touchCode
    intTP,          \* register INTC2, bit RA8875_INT_TP: a sample is ready
    tpReg,          \* registers TPXH/TPYH/TPXYL: the 10-bit sample <<x, y>>
    op,             \* the operation that ran last
    ret,            \* TouchCode_t returned by the last touch query
    outX, outY,     \* the caller's x and y handed to TouchPanelA2DFiltered
    touchPoint,     \* the caller's point_t handed to TouchPanelReadable
    retCode,        \* RetCode_t returned by the last calibration call
    matrixOut,      \* the caller's tpMatrix_t handed to TouchPanelComputeCalibration
    displayPtr,     \* the caller's point_t display[3] (pTest of TouchPanelCalibrate)
    screenPtr,      \* the caller's point_t screen[3] (pSample of TouchPanelCalibrate)
    setMatrixArg,   \* the matrixPtr argument of the last TouchPanelSetMatrix call
    feed,           \* the samples the touch panel is going to convert, in order
    fed,            \* how many samples of feed the controller has delivered
    idle,           \* microseconds since the application last polled the panel
    heldReports,    \* how many polls of the application have returned held
    releaseReports, \* how many polls made after the lift have returned release
    idle_callback,  \* the registered idle handler, or NoHandler
    get,            \* the activation of TouchPanelGet: position, argument, result
    cal,            \* the activation of TouchPanelCalibrate: position, arguments, locals
    log,            \* what the session in progress has done so far
    wait,           \* the activation of clsw and its _WaitWhileReg call
    useTouchPanel,  \* RA8875::useTouchPanel: TP_RES or TP_CAP
    tickerOn,       \* touchTicker is attached to _TouchTicker
    timerOn,        \* touchTimer is running
    tpcr,           \* registers TPCR0 and TPCR1 as the driver last wrote them
    initArgs,       \* the arguments of the last detailed TouchPanelInit call
    rd,             \* the activation of TouchPanelReadable on a capacitive panel
    reports,        \* the interrupt reports of channel 0, and which ones a call returned
    flt             \* the activation of TouchPanelA2DFiltered when the ticker may preempt it

filterVars == <<touchState, touchSample, touchTimer, xbuf, ybuf, lastX, lastY>>
hwVars     == <<intTP, tpReg>>
feedVars   == <<feed, fed>>
pollVars   == <<idle, heldReports, releaseReports>>
callVars   == <<idle_callback, get, cal, log, wait>>
queryVars  == <<panelTouched, touchInfo0, ret, outX, outY, touchPoint>>
calVars    == <<retCode, matrixOut, displayPtr, screenPtr, setMatrixArg>>
modeVars   == <<useTouchPanel, tickerOn, timerOn, tpcr, initArgs>>
irqVars    == <<rd, reports, flt>>
vars == <<filterVars, hwVars, feedVars, pollVars, callVars, queryVars, calVars, modeVars,
          irqVars, tpMatrix, op>>

(***************************************************************************)
(* Program constants.                                                      *)
(***************************************************************************)
NOTOUCH_TIMEOUT_uS == 100000
TOUCH_TICKER_uS == 1000
TPBUFSIZE == 16

TouchCode_t == {"no_touch", "touch", "held", "release", "no_cal"}

\* Touch panel settings of RA8875_Regs.h and their defaults: each bit field
\* as the number it contributes to its register.
TP_ENABLE == 128
TP_DISABLE == 0
TP_MODE_AUTO == 0
TP_MODE_MANUAL == 64
TP_DEBOUNCE_OFF == 0
TP_DEBOUNCE_ON == 4
TP_MANUAL_LATCH_Y == 3
TP_ADC_CLKDIV_8 == 3
TP_ADC_CLKDIV_128 == 7
TP_ADC_SAMPLE_8192_CLKS == 64
TP_ADC_SAMPLE_65536_CLKS == 112

\* a | b on uint8_t.
RECURSIVE BitOr(_, _)
BitOr(a, b) ==
    IF a = 0 THEN b
    ELSE IF b = 0 THEN a
    ELSE (IF a % 2 = 1 \/ b % 2 = 1 THEN 1 ELSE 0) + 2 * BitOr(a \div 2, b \div 2)

\* The detailed TouchPanelInit has not been called.
NoArgs == <<>>

\* TPCR0 and TPCR1 as TouchPanelInit(void) writes them.
DefaultTpcr ==
    [TPCR0 |-> BitOr(TP_ENABLE, BitOr(TP_ADC_SAMPLE_8192_CLKS, TP_ADC_CLKDIV_8)),
     TPCR1 |-> BitOr(TP_MODE_AUTO, TP_DEBOUNCE_ON)]

\* A caller's int that no call has written yet (every sample is >= 0), and a
\* caller's struct: <<>> until a call writes it, <<v>> once it holds v.
NoValue == -1
Unwritten == <<>>
Written(v) == <<v>>

(***************************************************************************)
(* C integer arithmetic: int is 32 bits wide, loc_t is int16_t, and the    *)
(* quotient of / is truncated towards zero.  Signed overflow is undefined  *)
(* behaviour: an operation whose exact result leaves the int range yields  *)
(* OVERFLOW, which every later operation hands on and which equals no      *)
(* value the program may rely on.                                          *)
(***************************************************************************)
INT_MAX == 2147483647
OVERFLOW == -INT_MAX - 1

Abs(v) == IF v < 0 THEN -v ELSE v

MulFits(a, b) == a = 0 \/ b = 0 \/ Abs(a) <= INT_MAX \div Abs(b)

AddFits(a, b) == IF b >= 0 THEN a <= INT_MAX - b ELSE a >= (-INT_MAX) - b

Mul(a, b) ==
    IF a = OVERFLOW \/ b = OVERFLOW THEN OVERFLOW
    ELSE IF MulFits(a, b) THEN a * b ELSE OVERFLOW

Add(a, b) ==
    IF a = OVERFLOW \/ b = OVERFLOW THEN OVERFLOW
    ELSE IF AddFits(a, b) THEN a + b ELSE OVERFLOW

Sub(a, b) == IF b = OVERFLOW THEN OVERFLOW ELSE Add(a, -b)

TruncDiv(a, b) ==
    IF a = OVERFLOW \/ b = OVERFLOW THEN OVERFLOW
    ELSE IF (a >= 0) = (b > 0) THEN Abs(a) \div Abs(b) ELSE -(Abs(a) \div Abs(b))

\* Conversion of an int to loc_t (int16_t): the low 16 bits, sign extended.
Int16(v) == IF v = OVERFLOW THEN OVERFLOW ELSE ((v + 32768) % 65536) - 32768

Pt(x, y) == [x |-> x, y |-> y]

ZeroMatrix ==
    [An |-> 0, Bn |-> 0, Cn |-> 0, Dn |-> 0, En |-> 0, Fn |-> 0, Divider |-> 0]

(***************************************************************************)
(* TouchPanelComputeCalibration: the matrix it leaves in tpMatrix.  The    *)
(* Divider is stored in the active matrix before it is tested.             *)
(***************************************************************************)
CalDivider(s) ==
    Sub(Mul(Sub(s[1].x, s[3].x), Sub(s[2].y, s[3].y)),
        Mul(Sub(s[2].x, s[3].x), Sub(s[1].y, s[3].y)))

CalMatrix(d, s) ==
    [An |-> Sub(Mul(Sub(d[1].x, d[3].x), Sub(s[2].y, s[3].y)),
                Mul(Sub(d[2].x, d[3].x), Sub(s[1].y, s[3].y))),
     Bn |-> Sub(Mul(Sub(s[1].x, s[3].x), Sub(d[2].x, d[3].x)),
                Mul(Sub(d[1].x, d[3].x), Sub(s[2].x, s[3].x))),
     Cn |-> Add(Add(Mul(Sub(Mul(s[3].x, d[2].x), Mul(s[2].x, d[3].x)), s[1].y),
                    Mul(Sub(Mul(s[1].x, d[3].x), Mul(s[3].x, d[1].x)), s[2].y)),
                Mul(Sub(Mul(s[2].x, d[1].x), Mul(s[1].x, d[2].x)), s[3].y)),
     Dn |-> Sub(Mul(Sub(d[1].y, d[3].y), Sub(s[2].y, s[3].y)),
                Mul(Sub(d[2].y, d[3].y), Sub(s[1].y, s[3].y))),
     En |-> Sub(Mul(Sub(s[1].x, s[3].x), Sub(d[2].y, d[3].y)),
                Mul(Sub(d[1].y, d[3].y), Sub(s[2].x, s[3].x))),
     Fn |-> Add(Add(Mul(Sub(Mul(s[3].x, d[2].y), Mul(s[2].x, d[3].y)), s[1].y),
                    Mul(Sub(Mul(s[1].x, d[3].y), Mul(s[3].x, d[1].y)), s[2].y)),
                Mul(Sub(Mul(s[2].x, d[1].y), Mul(s[1].x, d[2].y)), s[3].y)),
     Divider |-> CalDivider(s)]

(***************************************************************************)
(* The coordinate transform of TouchPanelReadable: all terms are added     *)
(* before the one truncating division, and the quotient is stored in a     *)
(* loc_t.                                                                  *)
(***************************************************************************)
\* Each term divided on its own, so that the remainders are rounded off early.
DisplayXDividedEarly(m, a2dX, a2dY) ==
    Int16(Add(Add(TruncDiv(Mul(m.An, a2dX), m.Divider),
                  TruncDiv(Mul(m.Bn, a2dY), m.Divider)),
              TruncDiv(m.Cn, m.Divider)))

DisplayX(m, a2dX, a2dY) ==
    Int16(TruncDiv(Add(Add(Mul(m.An, a2dX), Mul(m.Bn, a2dY)), m.Cn), m.Divider))

DisplayY(m, a2dX, a2dY) ==
    Int16(TruncDiv(Add(Add(Mul(m.Dn, a2dX), Mul(m.En, a2dY)), m.Fn), m.Divider))

DisplayPoint(m, a2dX, a2dY) == Pt(DisplayX(m, a2dX, a2dY), DisplayY(m, a2dX, a2dY))

(***************************************************************************)
(* static void InsertionSort(int * buf, int bufsize), on a 1-based buffer. *)
(***************************************************************************)
RECURSIVE ShiftUp(_, _, _)
ShiftUp(buf, j, temp) ==
    IF j > 1 /\ buf[j - 1] > temp
    THEN ShiftUp([buf EXCEPT ![j] = buf[j - 1]], j - 1, temp)
    ELSE [buf EXCEPT ![j] = temp]

RECURSIVE SortFrom(_, _, _)
SortFrom(buf, i, bufsize) ==
    IF i > bufsize THEN buf ELSE SortFrom(ShiftUp(buf, i, buf[i]), i + 1, bufsize)

InsertionSort(buf, bufsize) == SortFrom(buf, 2, bufsize)

(***************************************************************************)
(* The averaging loop of TouchPanelA2DFiltered,                            *)
(*   for (i = (TPBUFSIZE/4) - 1; i < TPBUFSIZE - TPBUFSIZE/4; i++) j += buf[i]; *)
(* with i the 0-based index of the code, and the scaling                   *)
(*   j * (float)2 / TPBUFSIZE                                              *)
(* converted back to int: the float product and quotient are exact for     *)
(* every sum of 10-bit samples, so the conversion truncates (2*j)/TPBUFSIZE.*)
(***************************************************************************)
RECURSIVE SumFrom(_, _, _)
SumFrom(buf, i, end) ==
    IF i < end THEN buf[i + 1] + SumFrom(buf, i + 1, end) ELSE 0

MiddleSum(buf) == SumFrom(buf, (TPBUFSIZE \div 4) - 1, TPBUFSIZE - (TPBUFSIZE \div 4))

Average(j) == TruncDiv(j * 2, TPBUFSIZE)

Active(ts) == ts = "touch" \/ ts = "held"

(***************************************************************************)
(* TouchCode_t TouchPanelA2DFiltered(int *x, int *y), run to completion on *)
(* the current state with x and y the caller's values on entry.  The       *)
(* result gives every variable the call leaves behind: ts touchState, n    *)
(* touchSample, tm touchTimer, xb/yb the buffers, lx/ly lastX/lastY, flag  *)
(* the INTC2 touch bit, rv the returned code, x/y the caller's values on   *)
(* return.                                                                 *)
(***************************************************************************)
\* The sample completes the batch (lines 370-417): sort, average, touch or held.
BatchComplete(xb1, yb1) ==
    LET ys == InsertionSort(yb1, TPBUFSIZE)
        xs == InsertionSort(xb1, TPBUFSIZE)
        ts == IF Active(touchState) THEN "held" ELSE "touch"
    IN  [ts |-> ts, n |-> 0, tm |-> 0, xb |-> xs, yb |-> ys,
         lx |-> Average(MiddleSum(xs)), ly |-> Average(MiddleSum(ys)),
         flag |-> FALSE, rv |-> ts,
         x |-> Average(MiddleSum(xs)), y |-> Average(MiddleSum(ys))]

\* A pending branch that stores the sample and reports the state as it is.
BatchPendingKeepsState(xb1, yb1, x, y) ==
    [ts |-> touchState, n |-> touchSample + 1, tm |-> 0,
     xb |-> xb1, yb |-> yb1, lx |-> lastX, ly |-> lastY,
     flag |-> FALSE, rv |-> touchState, x |-> x, y |-> y]

\* The batch is not full yet (lines 418-425).
BatchPending(xb1, yb1, x, y) ==
    IF Active(touchState)
    THEN [ts |-> "held", n |-> touchSample + 1, tm |-> 0,
          xb |-> xb1, yb |-> yb1, lx |-> lastX, ly |-> lastY,
          flag |-> FALSE, rv |-> "held", x |-> lastX, y |-> lastY]
    ELSE [ts |-> touchState, n |-> touchSample + 1, tm |-> 0,
          xb |-> xb1, yb |-> yb1, lx |-> lastX, ly |-> lastY,
          flag |-> FALSE, rv |-> touchState, x |-> x, y |-> y]

\* A no-sample branch that reports release and leaves the state at release.
NoSampleKeepsRelease(x, y) ==
    [ts |-> IF Active(touchState) THEN "held" ELSE touchState,
     n |-> touchSample, tm |-> touchTimer,
     xb |-> xbuf, yb |-> ybuf, lx |-> lastX, ly |-> lastY, flag |-> intTP,
     rv |-> IF Active(touchState) THEN "held" ELSE touchState,
     x |-> IF Active(touchState) \/ touchState = "release" THEN lastX ELSE x,
     y |-> IF Active(touchState) \/ touchState = "release" THEN lastY ELSE y]

\* No sample is ready (lines 428-439).
NoSample(x, y) ==
    IF Active(touchState)
    THEN [ts |-> "held", n |-> touchSample, tm |-> touchTimer,
          xb |-> xbuf, yb |-> ybuf, lx |-> lastX, ly |-> lastY,
          flag |-> intTP, rv |-> "held", x |-> lastX, y |-> lastY]
    ELSE IF touchState = "release"
         THEN [ts |-> "no_touch", n |-> touchSample, tm |-> touchTimer,
               xb |-> xbuf, yb |-> ybuf, lx |-> lastX, ly |-> lastY,
               flag |-> intTP, rv |-> "release", x |-> lastX, y |-> lastY]
         ELSE [ts |-> touchState, n |-> touchSample, tm |-> touchTimer,
               xb |-> xbuf, yb |-> ybuf, lx |-> lastX, ly |-> lastY,
               flag |-> intTP, rv |-> touchState, x |-> x, y |-> y]

A2DFiltered(x, y) ==
    IF intTP
    THEN LET yb1 == [ybuf EXCEPT ![touchSample + 1] = tpReg.y]
             xb1 == [xbuf EXCEPT ![touchSample + 1] = tpReg.x]
         IN  IF touchSample + 1 = TPBUFSIZE
             THEN BatchComplete(xb1, yb1)
             ELSE BatchPending(xb1, yb1, x, y)
    ELSE NoSample(x, y)

\* The driver state a TouchPanelA2DFiltered call with result r leaves behind.
FilterState(r) ==
    /\ touchState' = r.ts
    /\ touchSample' = r.n
    /\ touchTimer' = r.tm
    /\ xbuf' = r.xb
    /\ ybuf' = r.yb
    /\ lastX' = r.lx
    /\ lastY' = r.ly
    /\ intTP' = r.flag

(***************************************************************************)
(* A direct call TouchPanelA2DFiltered(&x, &y) by the application.         *)
(***************************************************************************)
TouchPanelA2DFiltered ==
    LET r == A2DFiltered(outX, outY)
    IN  /\ op' = "TouchPanelA2DFiltered"
        /\ FilterState(r)
        /\ ret' = r.rv
        /\ outX' = r.x
        /\ outY' = r.y
        /\ UNCHANGED <<tpReg, feedVars, panelTouched, touchInfo0, touchPoint, tpMatrix, calVars>>

\* A watchdog that drops every state to no_touch on a timeout.
_TouchTickerSkipsRelease(t) ==
    IF t > NOTOUCH_TIMEOUT_uS
    THEN /\ touchSample' = 0
         /\ touchState' = "no_touch"
         /\ touchTimer' = 0
    ELSE /\ touchTimer' = t
         /\ UNCHANGED <<touchSample, touchState>>

(***************************************************************************)
(* void _TouchTicker(void), the watchdog callback, run when touchTimer     *)
(* reads t microseconds.                                                   *)
(***************************************************************************)
_TouchTicker(t) ==
    IF t > NOTOUCH_TIMEOUT_uS
    THEN /\ touchSample' = 0
         /\ touchState' = IF touchState = "held" THEN "release" ELSE "no_touch"
         /\ touchTimer' = 0
    ELSE /\ touchTimer' = t
         /\ UNCHANGED <<touchSample, touchState>>

(***************************************************************************)
(* touchTicker runs the callback every TOUCH_TICKER_uS.  One step of the   *)
(* model lets TickStride periods pass without a call from the main thread, *)
(* or fewer when the watchdog fires first: the callbacks that find the     *)
(* timer at or below the threshold change nothing, and the step ends with  *)
(* the callback that is TickStride periods away or with the first one that *)
(* fires, whichever comes first.                                           *)
(***************************************************************************)
TickStride == 20

Tick ==
    /\ op' = "_TouchTicker"
    /\ _TouchTicker(touchTimer + TickStride * TOUCH_TICKER_uS)
    /\ UNCHANGED <<xbuf, ybuf, lastX, lastY, hwVars, feedVars, queryVars, calVars, tpMatrix>>

\* A query that takes only touch and release for activity, and held for none.
TouchPanelReadableEdgeOnly(hasTouchPoint) ==
    LET r == A2DFiltered(0, 0)
        edge == r.rv \notin {"no_touch", "held"}
        ts == IF edge /\ tpMatrix.Divider = 0 THEN "no_cal"
              ELSE IF r.rv = "held" THEN "no_touch" ELSE r.rv
        coordinates ==
            IF edge /\ tpMatrix.Divider # 0
            THEN DisplayPoint(tpMatrix, r.x, r.y)
            ELSE touchInfo0.coordinates
        touched == IF edge THEN TRUE ELSE panelTouched
    IN  /\ op' = "TouchPanelReadable"
        /\ FilterState(r)
        /\ touchInfo0' = [coordinates |-> coordinates, touchCode |-> ts]
        /\ panelTouched' = FALSE
        /\ touchPoint' = IF touched /\ hasTouchPoint THEN Written(coordinates) ELSE touchPoint
        /\ ret' = IF touched THEN (IF hasTouchPoint THEN ts ELSE "touch") ELSE ts
        /\ UNCHANGED <<tpReg, feedVars, outX, outY, tpMatrix, calVars>>

(***************************************************************************)
(* TouchCode_t TouchPanelReadable(point_t * TouchPoint), resistive mode.   *)
(* hasTouchPoint: TouchPoint != NULL.                                      *)
(***************************************************************************)
TouchPanelReadable(hasTouchPoint) ==
    LET r == A2DFiltered(0, 0)
        ts == IF r.rv # "no_touch" /\ tpMatrix.Divider = 0 THEN "no_cal" ELSE r.rv
        coordinates ==
            IF r.rv # "no_touch" /\ tpMatrix.Divider # 0
            THEN DisplayPoint(tpMatrix, r.x, r.y)
            ELSE touchInfo0.coordinates
        touched == IF r.rv # "no_touch" THEN TRUE ELSE panelTouched
    IN  /\ op' = "TouchPanelReadable"
        /\ FilterState(r)
        /\ touchInfo0' = [coordinates |-> coordinates, touchCode |-> ts]
        /\ panelTouched' = FALSE
        /\ touchPoint' = IF touched /\ hasTouchPoint THEN Written(coordinates) ELSE touchPoint
        /\ ret' = IF touched THEN (IF hasTouchPoint THEN ts ELSE "touch") ELSE ts
        /\ UNCHANGED <<tpReg, feedVars, outX, outY, tpMatrix, calVars>>

(***************************************************************************)
(* The touch controller finishes a conversion: it latches the sample in    *)
(* TPXH/TPYH/TPXYL and raises the touch bit of INTC2.                      *)
(***************************************************************************)
PanelSamples == {Pt(900, 300)}

HwSample(p) ==
    /\ op' = "HwSample"
    /\ intTP' = TRUE
    /\ tpReg' = p
    /\ UNCHANGED <<filterVars, feedVars, queryVars, calVars, tpMatrix>>

(***************************************************************************)
(* Inputs of the calibration calls.                                        *)
(***************************************************************************)
\* Raw 10-bit samples handed to the solver, the corners of the range among them.
RawPoints ==
    {Pt(100, 100), Pt(900, 300), Pt(500, 600), Pt(0, 0), Pt(1023, 1023), Pt(0, 1023)}

\* Display targets inside the screen, up to the largest panel (800 x 480).
DisplayPoints ==
    {Pt(50, 50), Pt(430, 150), Pt(225, 250), Pt(0, 0), Pt(799, 479)}

Triples(S) == {<<a, b, c>> : a \in S, b \in S, c \in S}

ExampleDisplay == <<Pt(50, 50), Pt(430, 150), Pt(225, 250)>>
ExampleScreen == <<Pt(100, 100), Pt(900, 300), Pt(500, 600)>>

IdentityMatrix ==
    [An |-> 1, Bn |-> 0, Cn |-> 0, Dn |-> 0, En |-> 1, Fn |-> 0, Divider |-> 1]

\* Matrices an application may hand to TouchPanelSetMatrix; NullPtr is matrixPtr == NULL.
NullPtr == [null |-> TRUE]
SavedMatrices ==
    {IdentityMatrix, CalMatrix(ExampleDisplay, ExampleScreen),
     [IdentityMatrix EXCEPT !.Divider = 0]}

(***************************************************************************)
(* The state after construction and TouchPanelInit() in resistive mode.    *)
(* The driver object has static storage duration in the documented usage,  *)
(* so the members the constructor does not set start as zero.              *)
(***************************************************************************)
InitMembers ==
    /\ touchState = "no_cal"
    /\ touchSample = 0
    /\ touchTimer = 0
    /\ tpMatrix = ZeroMatrix
    /\ xbuf = [i \in 1..TPBUFSIZE |-> 0]
    /\ ybuf = [i \in 1..TPBUFSIZE |-> 0]
    /\ lastX = 0
    /\ lastY = 0
    /\ panelTouched = FALSE
    /\ touchInfo0 = [coordinates |-> Pt(0, 0), touchCode |-> "no_touch"]
    /\ intTP = FALSE
    /\ tpReg = Pt(0, 0)
    /\ op = "TouchPanelInit"
    /\ ret = "no_touch"
    /\ outX = NoValue
    /\ outY = NoValue
    /\ touchPoint = Unwritten
    /\ retCode = "noerror"
    /\ matrixOut = Unwritten
    /\ setMatrixArg = NullPtr

InitDriver ==
    /\ InitMembers
    /\ useTouchPanel = "TP_RES"
    /\ tickerOn = TRUE
    /\ timerOn = TRUE
    /\ tpcr = DefaultTpcr
    /\ initArgs = NoArgs

\* No scripted feed: the samples are whatever the panel converts.
NoFeed == feed = <<>> /\ fed = 0

\* The application has not polled yet.
NoPolls == idle = 0 /\ heldReports = 0 /\ releaseReports = 0

\* No call is in progress that an interrupt could preempt.
NoRead == [pc |-> "idle", hasTouchPoint |-> FALSE, ts |-> "no_touch", k |-> 0]
NoReports == {}
NoFlt == [pc |-> "idle", ret |-> "no_touch", reg |-> 0, full |-> FALSE]
NoPreemption == rd = NoRead /\ reports = NoReports /\ flt = NoFlt

\* idle_callback = NULL, as the constructors leave it.
NoHandler == "NULL"

\* No blocking call is in progress.
NoGet == [pc |-> "idle", hasTouchPoint |-> FALSE, t |-> "no_touch", result |-> "no_touch"]
NoCal ==
    [pc |-> "idle", loop |-> "quiet", i |-> 0, t |-> 0, timeout |-> 0,
     maxwait_s |-> 0, hasMatrixPtr |-> FALSE]
NoLog ==
    [drawn |-> 0, quiet |-> FALSE, overlap |-> FALSE, starved |-> FALSE,
     late |-> FALSE, aborted |-> FALSE, matrix |-> ZeroMatrix, got |-> {}]

\* i, the countdown of _WaitWhileReg; busy, how many more reads of the
\* register find the flag set; cleared, a read has found it clear.
NoWait ==
    [pc |-> "idle", i |-> 0, busy |-> 0, cleared |-> FALSE,
     result |-> FALSE, clsw |-> "noerror"]

NoCalls ==
    /\ idle_callback = NoHandler
    /\ get = NoGet
    /\ cal = NoCal
    /\ log = NoLog
    /\ wait = NoWait

(***************************************************************************)
(* RetCode_t TouchPanelComputeCalibration(displayPtr, screenPtr, matrixPtr)*)
(* hasMatrixPtr: matrixPtr != NULL.                                        *)
(***************************************************************************)
TouchPanelComputeCalibration(hasMatrixPtr) ==
    /\ op' = "TouchPanelComputeCalibration"
    /\ IF CalDivider(screenPtr) = 0
       THEN /\ tpMatrix' = [tpMatrix EXCEPT !.Divider = CalDivider(screenPtr)]
            /\ retCode' = "bad_parameter"
            /\ UNCHANGED <<touchState, matrixOut>>
       ELSE /\ tpMatrix' = CalMatrix(displayPtr, screenPtr)
            /\ touchState' = "no_touch"
            /\ matrixOut' = IF hasMatrixPtr THEN Written(tpMatrix') ELSE matrixOut
            /\ retCode' = "noerror"
    /\ UNCHANGED <<touchSample, touchTimer, xbuf, ybuf, lastX, lastY>>
    /\ UNCHANGED <<hwVars, feedVars, queryVars, displayPtr, screenPtr, setMatrixArg>>

\* A TouchPanelSetMatrix that tests the pointer only, not the Divider.
TouchPanelSetMatrixAnyDivider(matrixPtr) ==
    /\ op' = "TouchPanelSetMatrix"
    /\ setMatrixArg' = matrixPtr
    /\ IF matrixPtr = NullPtr
       THEN /\ retCode' = "bad_parameter"
            /\ UNCHANGED <<tpMatrix, touchState>>
       ELSE /\ tpMatrix' = matrixPtr
            /\ touchState' = "no_touch"
            /\ retCode' = "noerror"
    /\ UNCHANGED <<touchSample, touchTimer, xbuf, ybuf, lastX, lastY>>
    /\ UNCHANGED <<hwVars, feedVars, queryVars, matrixOut, displayPtr, screenPtr>>

(***************************************************************************)
(* RetCode_t TouchPanelSetMatrix(matrixPtr)                                *)
(***************************************************************************)
TouchPanelSetMatrix(matrixPtr) ==
    /\ op' = "TouchPanelSetMatrix"
    /\ setMatrixArg' = matrixPtr
    /\ IF matrixPtr = NullPtr \/ matrixPtr.Divider = 0
       THEN /\ retCode' = "bad_parameter"
            /\ UNCHANGED <<tpMatrix, touchState>>
       ELSE /\ tpMatrix' = matrixPtr
            /\ touchState' = "no_touch"
            /\ retCode' = "noerror"
    /\ UNCHANGED <<touchSample, touchTimer, xbuf, ybuf, lastX, lastY>>
    /\ UNCHANGED <<hwVars, feedVars, queryVars, matrixOut, displayPtr, screenPtr>>

(***************************************************************************)
(* The calibration solver on its own: the caller's two arrays are drawn    *)
(* from the bounded sets, then the calibration calls run in any order.     *)
(***************************************************************************)
InitCal ==
    /\ InitDriver
    /\ NoFeed
    /\ NoPolls
    /\ NoPreemption
    /\ NoCalls
    /\ displayPtr \in Triples(DisplayPoints)
    /\ screenPtr \in Triples(RawPoints)

ComputeCalibrationCall == \E hasMatrixPtr \in BOOLEAN : TouchPanelComputeCalibration(hasMatrixPtr)

SetMatrixCall == \E matrixPtr \in SavedMatrices \cup {NullPtr} : TouchPanelSetMatrix(matrixPtr)

NextCal ==
    /\ ComputeCalibrationCall \/ SetMatrixCall
    /\ UNCHANGED <<pollVars, callVars, modeVars, irqVars>>

SpecCal == InitCal /\ [][NextCal]_vars

(***************************************************************************)
(* The resistive touch channel: the application polls the filter, the      *)
(* controller delivers samples and the watchdog ticker runs, in any order. *)
(***************************************************************************)
CollinearScreen == <<Pt(100, 100), Pt(500, 500), Pt(900, 900)>>

Init ==
    /\ InitDriver
    /\ NoFeed
    /\ NoPolls
    /\ NoPreemption
    /\ NoCalls
    /\ displayPtr = ExampleDisplay
    /\ screenPtr = ExampleScreen

Sample == \E p \in PanelSamples : HwSample(p)

Next ==
    /\ \/ Sample
       \/ Tick
       \/ TouchPanelA2DFiltered
    /\ UNCHANGED <<pollVars, callVars, modeVars, irqVars>>

Spec == Init /\ [][Next]_vars

(***************************************************************************)
(* The calibrated query: the application calls TouchPanelReadable and the  *)
(* calibration calls while samples arrive and the ticker runs.             *)
(***************************************************************************)
InitReadable ==
    /\ InitDriver
    /\ NoFeed
    /\ NoPolls
    /\ NoPreemption
    /\ NoCalls
    /\ displayPtr = ExampleDisplay
    /\ screenPtr \in {ExampleScreen, CollinearScreen}

ReadableCall == \E hasTouchPoint \in BOOLEAN : TouchPanelReadable(hasTouchPoint)

\* The application computes a calibration from its two arrays, keeping no copy.
Recalibrate == TouchPanelComputeCalibration(FALSE)

\* The application restores a matrix it had saved.
Restore == TouchPanelSetMatrix(IdentityMatrix)

NextReadable ==
    /\ \/ Sample
       \/ Tick
       \/ ReadableCall
       \/ Recalibrate
       \/ Restore
    /\ UNCHANGED <<pollVars, callVars, modeVars, irqVars>>

SpecReadable == InitReadable /\ [][NextReadable]_vars

(***************************************************************************)
(* The noise filter on its own: the panel converts two batches of          *)
(* TPBUFSIZE samples, one sample at a time, and the application polls      *)
(* TouchPanelA2DFiltered after each conversion.  The x axis carries batch  *)
(* a and then batch b, the y axis batch b and then batch a.                *)
(***************************************************************************)
Quartile == TPBUFSIZE \div 4

\* The middle halves of the batches, in ascending order.
MidShapes ==
    {[i \in 1..(TPBUFSIZE - 2 * Quartile) |-> 512],
     [i \in 1..(TPBUFSIZE - 2 * Quartile) |-> 499 + i],
     [i \in 1..(TPBUFSIZE - 2 * Quartile) |-> IF i <= Quartile THEN 300 ELSE 700]}

\* Noise spikes below and above every middle half.
LowSpikes == {0, 300}
HighSpikes == {700, 1023}

\* The order in which the samples of a batch arrive.
Arrivals == {"ascending", "descending", "alternating"}

Arrange(b, arrival) ==
    [i \in 1..TPBUFSIZE |->
        IF arrival = "ascending" THEN b[i]
        ELSE IF arrival = "descending" THEN b[TPBUFSIZE + 1 - i]
        ELSE IF i % 2 = 1 THEN b[TPBUFSIZE - (i \div 2)] ELSE b[i \div 2]]

SpikedBatch(lo, mid, hi) ==
    [i \in 1..TPBUFSIZE |->
        IF i <= Quartile THEN lo
        ELSE IF i <= TPBUFSIZE - Quartile THEN mid[i - Quartile] ELSE hi]

SpikedBatches ==
    {Arrange(SpikedBatch(lo, mid, hi), arrival) :
        lo \in LowSpikes, mid \in MidShapes, hi \in HighSpikes, arrival \in Arrivals}

\* TPBUFSIZE identical samples, for every value of the 10-bit converter.
SteadyBatches == {[i \in 1..TPBUFSIZE |-> v] : v \in 0..1023}

BatchPairs ==
    {<<a, b>> : a \in SpikedBatches, b \in SpikedBatches}
        \cup {<<a, a>> : a \in SteadyBatches}

FeedOf(a, b) ==
    [i \in 1..(2 * TPBUFSIZE) |->
        IF i <= TPBUFSIZE THEN Pt(a[i], b[i]) ELSE Pt(b[i - TPBUFSIZE], a[i - TPBUFSIZE])]

InitFilter ==
    /\ InitDriver
    /\ NoPolls
    /\ NoPreemption
    /\ NoCalls
    /\ displayPtr = ExampleDisplay
    /\ screenPtr = ExampleScreen
    /\ fed = 0
    /\ \E pair \in BatchPairs : feed = FeedOf(pair[1], pair[2])

\* The controller converts the next sample of the feed.
Convert ==
    /\ ~intTP
    /\ fed < Len(feed)
    /\ fed' = fed + 1
    /\ feed' = feed
    /\ op' = "HwSample"
    /\ intTP' = TRUE
    /\ tpReg' = feed[fed + 1]
    /\ UNCHANGED <<filterVars, queryVars, calVars, tpMatrix>>

\* The application polls once the sample is ready.
PollSample == intTP /\ TouchPanelA2DFiltered

NextFilter ==
    /\ Convert \/ PollSample
    /\ UNCHANGED <<pollVars, callVars, modeVars, irqVars>>

SpecFilter == InitFilter /\ [][NextFilter]_vars

(***************************************************************************)
(* One contact: the application restores a saved matrix, which leaves the  *)
(* state at no_touch; the panel then converts TPBUFSIZE samples and n more *)
(* while the contact persists, and none after the lift.  The application   *)
(* polls TouchPanelA2DFiltered between ticker steps, less than             *)
(* NOTOUCH_TIMEOUT_uS apart, and finds a sample ready at every poll until  *)
(* the lift.                                                               *)
(***************************************************************************)
MaxHeld == 3

ContactFeeds ==
    {[i \in 1..(TPBUFSIZE + n) |-> Pt(900, 300)] : n \in 0..MaxHeld}

InitContact ==
    /\ InitDriver
    /\ NoPolls
    /\ NoPreemption
    /\ NoCalls
    /\ displayPtr = ExampleDisplay
    /\ screenPtr = ExampleScreen
    /\ fed = 0
    /\ feed \in ContactFeeds

Prepare ==
    /\ op = "TouchPanelInit"
    /\ TouchPanelSetMatrix(IdentityMatrix)
    /\ UNCHANGED <<pollVars, callVars>>

ContactSample ==
    /\ op # "TouchPanelInit"
    /\ Convert
    /\ UNCHANGED <<pollVars, callVars>>

PacedTick ==
    /\ op # "TouchPanelInit"
    /\ idle + TickStride * TOUCH_TICKER_uS < NOTOUCH_TIMEOUT_uS
    /\ Tick
    /\ idle' = idle + TickStride * TOUCH_TICKER_uS
    /\ UNCHANGED <<heldReports, releaseReports, callVars>>

Poll ==
    /\ op # "TouchPanelInit"
    /\ idle > 0
    /\ intTP \/ fed = Len(feed)
    /\ TouchPanelA2DFiltered
    /\ idle' = 0
    /\ heldReports' = IF ret' = "held" THEN heldReports + 1 ELSE heldReports
    /\ UNCHANGED <<releaseReports, callVars>>

NextContact ==
    /\ \/ Prepare
       \/ ContactSample
       \/ PacedTick
       \/ Poll
    /\ UNCHANGED <<modeVars, irqVars>>

SpecContact == InitContact /\ [][NextContact]_vars

(***************************************************************************)
(* Capacitive panel.  The FT5206 pulls the interrupt line low for every    *)
(* report; TouchPanelISR reads the registers of the report over I2C into   *)
(* touchInfo[] and sets panelTouched.  The handler preempts the thread and *)
(* runs to its end, so it is one step; TouchPanelReadable runs in the      *)
(* thread and is one step per statement that touches the shared members:   *)
(* rd.pc is "test" before line 271, "clear" before 272, "copy" before 274, *)
(* "code" before 275, "done" after the return.  feed is the sequence of    *)
(* reports the controller is going to raise, fed how many it has raised;   *)
(* rd.k is the report whose touch code the call in progress has taken, and *)
(* reports the set of reports that some call has returned.                 *)
(***************************************************************************)
EventFlagToTouchCode == <<"touch", "release", "held", "no_touch">>

\* The registers TOUCH1_XH, _XL, _YH, _YL of a report: event flag in XH[7:6],
\* the coordinates in 12 bits, the touch id in YH[7:4].
Ft5206(flag, p) ==
    [XH |-> flag * 64 + p.x \div 256, XL |-> p.x % 256,
     YH |-> p.y \div 256, YL |-> p.y % 256]

\* case 1 of getTouchPositions: what the handler stores in touchInfo[0].
getTouchPositions(regs) ==
    [coordinates |-> Pt((regs.XH % 16) * 256 + regs.XL, (regs.YH % 16) * 256 + regs.YL),
     touchCode |-> EventFlagToTouchCode[regs.XH \div 64 + 1]]

capRest == <<filterVars, hwVars, pollVars, callVars, calVars, modeVars, flt, tpMatrix,
             outX, outY>>

TouchPanelISR ==
    /\ fed < Len(feed)
    /\ op' = "TouchPanelISR"
    /\ touchInfo0' = getTouchPositions(feed[fed + 1])
    /\ panelTouched' = TRUE
    /\ fed' = fed + 1
    /\ UNCHANGED <<feed, rd, reports, ret, touchPoint, capRest>>

ReadCall(hasTouchPoint) ==
    /\ rd.pc \in {"idle", "done"}
    /\ op' = "call"
    /\ rd' = [pc |-> "test", hasTouchPoint |-> hasTouchPoint, ts |-> "no_touch", k |-> 0]
    /\ UNCHANGED <<feedVars, reports, panelTouched, touchInfo0, ret, touchPoint, capRest>>

\* if (panelTouched == true)
ReadTest ==
    /\ rd.pc = "test"
    /\ op' = "test"
    /\ rd' = [rd EXCEPT !.pc = IF panelTouched THEN "clear" ELSE "return"]
    /\ UNCHANGED <<feedVars, reports, panelTouched, touchInfo0, ret, touchPoint, capRest>>

\* panelTouched = false; if (TouchPoint) ... else ts = touch;
ReadClear ==
    /\ rd.pc = "clear"
    /\ op' = "clear"
    /\ panelTouched' = FALSE
    /\ rd' = IF rd.hasTouchPoint
             THEN [rd EXCEPT !.pc = "copy"]
             ELSE [rd EXCEPT !.pc = "return", !.ts = "touch", !.k = fed]
    /\ UNCHANGED <<feedVars, reports, touchInfo0, ret, touchPoint, capRest>>

\* *TouchPoint = touchInfo[0].coordinates;
ReadCopy ==
    /\ rd.pc = "copy"
    /\ op' = "copy"
    /\ touchPoint' = Written(touchInfo0.coordinates)
    /\ rd' = [rd EXCEPT !.pc = "code"]
    /\ UNCHANGED <<feedVars, reports, panelTouched, touchInfo0, ret, capRest>>

\* ts = touchInfo[0].touchCode;
ReadCode ==
    /\ rd.pc = "code"
    /\ op' = "code"
    /\ rd' = [rd EXCEPT !.pc = "return", !.ts = touchInfo0.touchCode, !.k = fed]
    /\ UNCHANGED <<feedVars, reports, panelTouched, touchInfo0, ret, touchPoint, capRest>>

\* return ts;
ReadReturn ==
    /\ rd.pc = "return"
    /\ op' = "TouchPanelReadable"
    /\ ret' = rd.ts
    /\ reports' = IF rd.k = 0 THEN reports ELSE reports \cup {rd.k}
    /\ rd' = [rd EXCEPT !.pc = "done"]
    /\ UNCHANGED <<feedVars, panelTouched, touchInfo0, touchPoint, capRest>>

\* One finger: put down at a, contact at b, put up at c.
CapPoints == {Pt(100, 200), Pt(2047, 1100)}

Strokes ==
    {<<Ft5206(0, a), Ft5206(2, b), Ft5206(1, c)>> : a \in CapPoints, b \in CapPoints,
                                                    c \in CapPoints}

\* The constructor for the capacitive panel: useTouchPanel = TP_CAP, the
\* handler attached to the interrupt line, then TouchPanelInit(), which on
\* this panel clears panelTouched and starts no ticker.
InitCap ==
    /\ InitMembers
    /\ useTouchPanel = "TP_CAP"
    /\ tickerOn = FALSE
    /\ timerOn = FALSE
    /\ tpcr = [TPCR0 |-> 0, TPCR1 |-> 0]
    /\ initArgs = NoArgs
    /\ NoPolls
    /\ NoPreemption
    /\ NoCalls
    /\ displayPtr = ExampleDisplay
    /\ screenPtr = ExampleScreen
    /\ fed = 0
    /\ feed \in Strokes

ReadStart == \E hasTouchPoint \in BOOLEAN : ReadCall(hasTouchPoint)

NextCap ==
    \/ TouchPanelISR
    \/ ReadStart
    \/ ReadTest
    \/ ReadClear
    \/ ReadCopy
    \/ ReadCode
    \/ ReadReturn

SpecCap == InitCap /\ [][NextCap]_vars

(***************************************************************************)
(* TouchPanelInit.  The plain call programs the defaults; the detailed     *)
(* call checks its six arguments, programs TPCR0 and TPCR1 from them and   *)
(* attaches or detaches the watchdog ticker.  On a capacitive panel both   *)
(* only clear panelTouched.                                                *)
(***************************************************************************)
initRest == <<xbuf, ybuf, lastX, lastY, tpReg, feedVars, pollVars, callVars, irqVars,
              touchInfo0, ret, outX, outY, touchPoint, matrixOut, displayPtr, screenPtr,
              setMatrixArg, tpMatrix, useTouchPanel>>

\* The resistive branch of both calls, with the registers and the ticker given.
InitResistive(regs, enable) ==
    /\ tpcr' = regs
    /\ intTP' = FALSE
    /\ touchSample' = 0
    /\ touchState' = "no_cal"
    /\ tickerOn' = enable
    /\ timerOn' = enable
    /\ touchTimer' = IF enable THEN 0 ELSE touchTimer
    /\ UNCHANGED panelTouched

TouchPanelInit ==
    /\ op' = "TouchPanelInit"
    /\ retCode' = "noerror"
    /\ initArgs' = NoArgs
    /\ IF useTouchPanel = "TP_CAP"
       THEN /\ panelTouched' = FALSE
            /\ UNCHANGED <<tpcr, intTP, touchSample, touchState, tickerOn, timerOn,
                           touchTimer>>
       ELSE /\ InitResistive(DefaultTpcr, TRUE)
    /\ UNCHANGED initRest

\* The parameter bounds check of the detailed call.
InitArgsRejected(bTpEnable, bTpAutoManual, bTpDebounce, bTpManualMode, bTpAdcClkDiv, bTpAdcSampleTime) ==
    \/ ~(bTpEnable = TP_ENABLE \/ bTpEnable = TP_ENABLE)
    \/ ~(bTpAutoManual = TP_MODE_AUTO \/ bTpAutoManual = TP_MODE_MANUAL)
    \/ ~(bTpDebounce = TP_DEBOUNCE_OFF \/ bTpDebounce = TP_DEBOUNCE_ON)
    \/ ~(bTpManualMode <= TP_MANUAL_LATCH_Y)
    \/ ~(bTpAdcClkDiv <= TP_ADC_CLKDIV_128)
    \/ ~(bTpAdcSampleTime <= TP_ADC_SAMPLE_65536_CLKS)

TouchPanelInitDetailed(bTpEnable, bTpAutoManual, bTpDebounce, bTpManualMode, bTpAdcClkDiv, bTpAdcSampleTime) ==
    /\ op' = "TouchPanelInit"
    /\ initArgs' = <<bTpEnable, bTpAutoManual, bTpDebounce, bTpManualMode, bTpAdcClkDiv,
                     bTpAdcSampleTime>>
    /\ IF useTouchPanel = "TP_CAP"
       THEN /\ retCode' = "noerror"
            /\ panelTouched' = FALSE
            /\ UNCHANGED <<tpcr, intTP, touchSample, touchState, tickerOn, timerOn,
                           touchTimer>>
       ELSE IF InitArgsRejected(bTpEnable, bTpAutoManual, bTpDebounce, bTpManualMode,
                                bTpAdcClkDiv, bTpAdcSampleTime)
       THEN /\ retCode' = "bad_parameter"
            /\ UNCHANGED <<tpcr, intTP, touchSample, touchState, tickerOn, timerOn,
                           touchTimer, panelTouched>>
       ELSE /\ retCode' = "noerror"
            /\ InitResistive(
                   [TPCR0 |-> BitOr(bTpEnable, BitOr(bTpAdcClkDiv, bTpAdcSampleTime)),
                    TPCR1 |-> BitOr(bTpManualMode, BitOr(bTpDebounce, bTpManualMode))],
                   bTpEnable = TP_ENABLE)
    /\ UNCHANGED initRest

\* For each argument documented values and one value outside them.
EnableArgs == {TP_ENABLE, TP_DISABLE, 1}
AutoManualArgs == {TP_MODE_MANUAL, 1}
DebounceArgs == {TP_DEBOUNCE_ON, 1}
ManualModeArgs == {TP_MANUAL_LATCH_Y, TP_MANUAL_LATCH_Y + 1}
AdcClkDivArgs == {TP_ADC_CLKDIV_128, TP_ADC_CLKDIV_128 + 1}
AdcSampleTimeArgs == {TP_ADC_SAMPLE_65536_CLKS, TP_ADC_SAMPLE_65536_CLKS + 1}

InitSetup ==
    /\ InitMembers
    /\ \/ /\ useTouchPanel = "TP_RES"
          /\ tickerOn = TRUE
          /\ timerOn = TRUE
          /\ tpcr = DefaultTpcr
       \/ /\ useTouchPanel = "TP_CAP"
          /\ tickerOn = FALSE
          /\ timerOn = FALSE
          /\ tpcr = [TPCR0 |-> 0, TPCR1 |-> 0]
    /\ initArgs = NoArgs
    /\ NoFeed
    /\ NoPolls
    /\ NoPreemption
    /\ NoCalls
    /\ displayPtr = ExampleDisplay
    /\ screenPtr = ExampleScreen

InitCall ==
    \E a \in EnableArgs, b \in AutoManualArgs, c \in DebounceArgs, d \in ManualModeArgs,
       f \in AdcClkDivArgs, g \in AdcSampleTimeArgs :
        TouchPanelInitDetailed(a, b, c, d, f, g)

\* The ticker runs only while it is attached.
InitTick == tickerOn /\ Tick /\ UNCHANGED <<pollVars, callVars, modeVars, irqVars>>

NextInit == InitCall \/ TouchPanelInit \/ InitTick

SpecInit == InitSetup /\ [][NextInit]_vars

(***************************************************************************)
(* Range of the calibration arithmetic.  Every product and sum of          *)
(* TouchPanelComputeCalibration and of the transform is a polynomial of    *)
(* degree at most one in each coordinate it reads, so over a box of inputs *)
(* it is largest at a corner of the box: the raw points are drawn from the *)
(* corners of the 10-bit range and the targets from the corners of the     *)
(* largest screen, with one interior point each.                           *)
(***************************************************************************)
\* Raw points of a 12-bit digitizer.
RawCorners12Bit == {Pt(x, y) : x \in {0, 4095}, y \in {0, 4095}} \cup {Pt(500, 600)}

RawCorners == {Pt(x, y) : x \in {0, 1023}, y \in {0, 1023}} \cup {Pt(500, 600)}

DisplayCorners == {Pt(x, y) : x \in {0, 799}, y \in {0, 479}} \cup {Pt(225, 250)}

\* The transform of TouchPanelReadable (lines 250-260) on the raw sample a2d.
Transform(a2d) ==
    /\ tpMatrix.Divider # 0
    /\ op' = "transform"
    /\ outX' = a2d.x
    /\ outY' = a2d.y
    /\ touchInfo0' = [touchInfo0 EXCEPT !.coordinates = DisplayPoint(tpMatrix, a2d.x, a2d.y)]
    /\ UNCHANGED <<filterVars, hwVars, feedVars, calVars, tpMatrix, panelTouched, ret,
                   touchPoint>>

InitRange ==
    /\ InitDriver
    /\ NoFeed
    /\ NoPolls
    /\ NoPreemption
    /\ NoCalls
    /\ displayPtr \in Triples(DisplayCorners)
    /\ screenPtr \in Triples(RawCorners)

TransformCall == \E a2d \in RawCorners : op # "TouchPanelInit" /\ Transform(a2d)

NextRange ==
    /\ ComputeCalibrationCall \/ TransformCall
    /\ UNCHANGED <<pollVars, callVars, modeVars, irqVars>>

SpecRange == InitRange /\ [][NextRange]_vars

(***************************************************************************)
(* A contact and its lift.  The panel converts the samples of the feed     *)
(* while the contact lasts and none after the lift, which is the end of    *)
(* the feed: a tap too short to fill a batch, or a batch and up to MaxHeld *)
(* samples more.  While the contact lasts the caller polls often enough    *)
(* for the watchdog not to fire, as the wait loops do with a poll every    *)
(* 20 ms; after the lift the caller's polls and the ticker interleave in   *)
(* any way, so a poll may come many ticker periods after the one before.   *)
(* The ticker is attached with attach_us and fires every TOUCH_TICKER_uS,  *)
(* and the caller's loop polls again after each wait: after the lift       *)
(* neither is postponed for ever.                                          *)
(***************************************************************************)
Lifted == fed = Len(feed)

LiftFeeds ==
    {[i \in 1..n |-> Pt(900, 300)] : n \in {MaxHeld} \cup {TPBUFSIZE + k : k \in 1..MaxHeld}}

InitLift ==
    /\ InitDriver
    /\ NoPolls
    /\ NoPreemption
    /\ NoCalls
    /\ displayPtr = ExampleDisplay
    /\ screenPtr = ExampleScreen
    /\ fed = 0
    /\ feed \in LiftFeeds

LiftSample == Convert /\ UNCHANGED <<pollVars, callVars, modeVars, irqVars>>

\* Before the lift a sample is waiting and the watchdog is not due.
LiftTick ==
    /\ Lifted \/ (intTP /\ touchTimer + TickStride * TOUCH_TICKER_uS <= NOTOUCH_TIMEOUT_uS)
    /\ Tick
    /\ UNCHANGED <<pollVars, callVars, modeVars, irqVars>>

LiftPoll ==
    /\ TouchPanelA2DFiltered
    /\ releaseReports' = IF Lifted /\ ret' = "release"
                         THEN releaseReports + 1
                         ELSE releaseReports
    /\ UNCHANGED <<idle, heldReports, callVars, modeVars, irqVars>>

\* The polls of the wait-for-release loop.
LatePoll == Lifted /\ LiftPoll

NextLift == LiftSample \/ LiftTick \/ LiftPoll

SpecLift == InitLift /\ [][NextLift]_vars /\ WF_vars(LiftTick) /\ WF_vars(LatePoll)

(***************************************************************************)
(* TouchPanelA2DFiltered preempted by the ticker.  The call runs in the    *)
(* thread, one step per statement that reads or writes a member the ticker *)
(* shares with it (touchState, touchSample, touchTimer); _TouchTicker      *)
(* preempts it between any two steps and runs to its end.  flt.pc names    *)
(* the statement the call is about to run, flt.ret is its local ret,       *)
(* flt.reg the register that holds touchSample during ++touchSample, which *)
(* is a load, an add and a store, and flt.full whether this call filled    *)
(* the batch.                                                              *)
(***************************************************************************)
fltRest == <<tpReg, feedVars, pollVars, callVars, calVars, modeVars, rd, reports,
             panelTouched, touchInfo0, touchPoint, tpMatrix>>

\* TouchCode_t ret = touchState;
FltCall ==
    /\ flt.pc \in {"idle", "done"}
    /\ op' = "call"
    /\ flt' = [pc |-> "test", ret |-> touchState, reg |-> 0, full |-> FALSE]
    /\ UNCHANGED <<filterVars, intTP, ret, outX, outY, fltRest>>

\* if( (ReadCommand(INTC2) & RA8875_INT_TP) )
FltTest ==
    /\ flt.pc = "test"
    /\ op' = "test"
    /\ flt' = [flt EXCEPT !.pc = IF intTP THEN "reset" ELSE "nosample"]
    /\ UNCHANGED <<filterVars, intTP, ret, outX, outY, fltRest>>

\* touchTimer.reset();
FltReset ==
    /\ flt.pc = "reset"
    /\ op' = "reset"
    /\ touchTimer' = 0
    /\ flt' = [flt EXCEPT !.pc = "ybuf"]
    /\ UNCHANGED <<touchState, touchSample, xbuf, ybuf, lastX, lastY, intTP, ret, outX,
                   outY, fltRest>>

\* ybuf[touchSample] = ...;
FltY ==
    /\ flt.pc = "ybuf"
    /\ op' = "ybuf"
    /\ ybuf' = [ybuf EXCEPT ![touchSample + 1] = tpReg.y]
    /\ flt' = [flt EXCEPT !.pc = "xbuf"]
    /\ UNCHANGED <<touchState, touchSample, touchTimer, xbuf, lastX, lastY, intTP, ret,
                   outX, outY, fltRest>>

\* xbuf[touchSample] = ...;
FltX ==
    /\ flt.pc = "xbuf"
    /\ op' = "xbuf"
    /\ xbuf' = [xbuf EXCEPT ![touchSample + 1] = tpReg.x]
    /\ flt' = [flt EXCEPT !.pc = "load"]
    /\ UNCHANGED <<touchState, touchSample, touchTimer, ybuf, lastX, lastY, intTP, ret,
                   outX, outY, fltRest>>

\* ++touchSample: the load.
FltLoad ==
    /\ flt.pc = "load"
    /\ op' = "load"
    /\ flt' = [flt EXCEPT !.pc = "store", !.reg = touchSample]
    /\ UNCHANGED <<filterVars, intTP, ret, outX, outY, fltRest>>

\* A call that leaves the index where the increment put it.
FltZeroSkipped ==
    /\ flt.pc = "zero"
    /\ op' = "zero"
    /\ flt' = [flt EXCEPT !.pc = "clear"]
    /\ UNCHANGED <<filterVars, intTP, ret, outX, outY, fltRest>>

\* ++touchSample: the store, and the comparison with TPBUFSIZE.
FltStore ==
    /\ flt.pc = "store"
    /\ op' = "store"
    /\ touchSample' = flt.reg + 1
    /\ flt' = [flt EXCEPT !.pc = IF flt.reg + 1 = TPBUFSIZE THEN "average" ELSE "pending",
                          !.full = (flt.reg + 1 = TPBUFSIZE)]
    /\ UNCHANGED <<touchState, touchTimer, xbuf, ybuf, lastX, lastY, intTP, ret, outX,
                   outY, fltRest>>

\* The two sorts and the two averages (lines 376-410).
FltAverage ==
    /\ flt.pc = "average"
    /\ op' = "average"
    /\ ybuf' = InsertionSort(ybuf, TPBUFSIZE)
    /\ xbuf' = InsertionSort(xbuf, TPBUFSIZE)
    /\ lastY' = Average(MiddleSum(ybuf'))
    /\ lastX' = Average(MiddleSum(xbuf'))
    /\ outY' = lastY'
    /\ outX' = lastX'
    /\ flt' = [flt EXCEPT !.pc = "state"]
    /\ UNCHANGED <<touchState, touchSample, touchTimer, intTP, ret, fltRest>>

\* if (touchState == touch || touchState == held) ... ; ret = touchState;
FltState ==
    /\ flt.pc = "state"
    /\ op' = "state"
    /\ touchState' = IF Active(touchState) THEN "held" ELSE "touch"
    /\ flt' = [flt EXCEPT !.pc = "zero", !.ret = touchState']
    /\ UNCHANGED <<touchSample, touchTimer, xbuf, ybuf, lastX, lastY, intTP, ret, outX,
                   outY, fltRest>>

\* touchSample = 0;
FltZero ==
    /\ flt.pc = "zero"
    /\ op' = "zero"
    /\ touchSample' = 0
    /\ flt' = [flt EXCEPT !.pc = "clear"]
    /\ UNCHANGED <<touchState, touchTimer, xbuf, ybuf, lastX, lastY, intTP, ret, outX,
                   outY, fltRest>>

\* else { // Buffer not yet full (lines 418-425)
FltPending ==
    /\ flt.pc = "pending"
    /\ op' = "pending"
    /\ IF Active(touchState)
       THEN /\ outX' = lastX
            /\ outY' = lastY
            /\ touchState' = "held"
            /\ flt' = [flt EXCEPT !.pc = "clear", !.ret = "held"]
       ELSE /\ flt' = [flt EXCEPT !.pc = "clear"]
            /\ UNCHANGED <<outX, outY, touchState>>
    /\ UNCHANGED <<touchSample, touchTimer, xbuf, ybuf, lastX, lastY, intTP, ret, fltRest>>

\* WriteCommand(INTC2, RA8875_INT_TP);
FltClear ==
    /\ flt.pc = "clear"
    /\ op' = "clear"
    /\ intTP' = FALSE
    /\ flt' = [flt EXCEPT !.pc = "return"]
    /\ UNCHANGED <<filterVars, ret, outX, outY, fltRest>>

\* No sample is ready (lines 428-439).
FltNoSample ==
    /\ flt.pc = "nosample"
    /\ op' = "nosample"
    /\ IF Active(touchState)
       THEN /\ outX' = lastX
            /\ outY' = lastY
            /\ touchState' = "held"
            /\ flt' = [flt EXCEPT !.pc = "return", !.ret = "held"]
       ELSE IF touchState = "release"
       THEN /\ outX' = lastX
            /\ outY' = lastY
            /\ touchState' = "no_touch"
            /\ flt' = [flt EXCEPT !.pc = "return", !.ret = "release"]
       ELSE /\ flt' = [flt EXCEPT !.pc = "return"]
            /\ UNCHANGED <<outX, outY, touchState>>
    /\ UNCHANGED <<touchSample, touchTimer, xbuf, ybuf, lastX, lastY, intTP, ret, fltRest>>

\* return ret;
FltReturn ==
    /\ flt.pc = "return"
    /\ op' = "TouchPanelA2DFiltered"
    /\ ret' = flt.ret
    /\ flt' = [flt EXCEPT !.pc = "done"]
    /\ UNCHANGED <<filterVars, intTP, outX, outY, fltRest>>

\* The ticker, in the thread's place for as long as the handler runs.
FltTick == Tick /\ UNCHANGED <<pollVars, callVars, modeVars, irqVars>>

\* The controller latches the next sample while no unread one is waiting.
FltSample == ~intTP /\ Sample /\ UNCHANGED <<pollVars, callVars, modeVars, irqVars>>

NextPreempt ==
    \/ FltCall
    \/ FltTest
    \/ FltReset
    \/ FltY
    \/ FltX
    \/ FltLoad
    \/ FltStore
    \/ FltAverage
    \/ FltState
    \/ FltZero
    \/ FltPending
    \/ FltClear
    \/ FltNoSample
    \/ FltReturn
    \/ FltTick
    \/ FltSample

SpecPreempt == Init /\ [][NextPreempt]_vars

(***************************************************************************)
(* C1. After TouchPanelComputeCalibration returns noerror, the transform   *)
(* of TouchPanelReadable with the installed matrix takes each of the three *)
(* raw points of the call to exactly its display target, and the call      *)
(* returns noerror whenever the raw points give a non-zero Divider; the    *)
(* targets (50,50),(430,150),(225,250) with the samples (100,100),         *)
(* (900,300),(500,600) give a non-zero Divider and are mapped exactly.     *)
(***************************************************************************)
AnchorsReproduced ==
    \A i \in 1..3 : DisplayPoint(tpMatrix, screenPtr[i].x, screenPtr[i].y) = displayPtr[i]

CalibrationRoundTrip ==
    op = "TouchPanelComputeCalibration" =>
        /\ (retCode = "noerror") = (CalDivider(screenPtr) # 0)
        /\ retCode = "noerror" => tpMatrix.Divider # 0 /\ AnchorsReproduced
        /\ (displayPtr = ExampleDisplay /\ screenPtr = ExampleScreen) => retCode = "noerror"

CalibrationRoundTripWitness ==
    /\ op = "TouchPanelComputeCalibration"
    /\ retCode = "noerror"
    /\ displayPtr = ExampleDisplay
    /\ screenPtr = ExampleScreen
    /\ tpMatrix.Divider # 0
    /\ DisplayPoint(tpMatrix, 900, 300) = Pt(430, 150)

(***************************************************************************)
(* C2. A TouchPanelComputeCalibration call that returns bad_parameter      *)
(* (collinear or duplicated raw points) writes neither the caller's matrix *)
(* nor any of the seven fields of the active matrix.                       *)
(***************************************************************************)
FailedCalibrationInstallsNothing ==
    [][(op' = "TouchPanelComputeCalibration" /\ retCode' = "bad_parameter")
        => (tpMatrix' = tpMatrix /\ matrixOut' = matrixOut)]_vars

(***************************************************************************)
(* C3. While the active matrix has Divider = 0, a TouchPanelReadable call  *)
(* that sees touch activity (its TouchPanelA2DFiltered call returns touch, *)
(* held or release) returns no_cal, with or without a point pointer, and   *)
(* writes nothing into the caller's point.                                 *)
(***************************************************************************)
UncalibratedQueryReturnsNoCal ==
    [][(op' = "TouchPanelReadable" /\ tpMatrix.Divider = 0
            /\ A2DFiltered(0, 0).rv \in {"touch", "held", "release"})
        => (ret' = "no_cal" /\ touchPoint' = touchPoint)]_vars

(***************************************************************************)
(* The batches of the scripted feed, and the trimmed mean as the filter is *)
(* described: the samples in ascending order, the Quartile lowest and the  *)
(* Quartile highest discarded, the rest summed and divided by their count. *)
(***************************************************************************)
XBatch(k) == [i \in 1..TPBUFSIZE |-> feed[(k - 1) * TPBUFSIZE + i].x]
YBatch(k) == [i \in 1..TPBUFSIZE |-> feed[(k - 1) * TPBUFSIZE + i].y]

\* The p-th smallest sample of batch b.
Ranked(b, p) ==
    CHOOSE v \in {b[i] : i \in 1..TPBUFSIZE} :
        /\ Cardinality({i \in 1..TPBUFSIZE : b[i] < v}) < p
        /\ p <= Cardinality({i \in 1..TPBUFSIZE : b[i] <= v})

SortedMiddle(b) == [p \in (Quartile + 1)..(TPBUFSIZE - Quartile) |-> Ranked(b, p)]

RECURSIVE SumRanked(_, _, _)
SumRanked(b, p, last) == IF p > last THEN 0 ELSE Ranked(b, p) + SumRanked(b, p + 1, last)

TrimmedMean(b) ==
    SumRanked(b, Quartile + 1, TPBUFSIZE - Quartile) \div (TPBUFSIZE - 2 * Quartile)

Steady(b) == \A i \in 1..TPBUFSIZE : b[i] = b[1]

\* The call that just returned completed batch number fed \div TPBUFSIZE.
BatchDone ==
    /\ op = "TouchPanelA2DFiltered"
    /\ touchSample = 0
    /\ fed \in {TPBUFSIZE, 2 * TPBUFSIZE}

(***************************************************************************)
(* C4. The call that completes a batch of TPBUFSIZE identical samples v on *)
(* an axis reports exactly v on that axis, for every v in 0..1023.         *)
(***************************************************************************)
SteadyBatchReproduced ==
    BatchDone =>
        /\ Steady(XBatch(fed \div TPBUFSIZE)) => outX = XBatch(fed \div TPBUFSIZE)[1]
        /\ Steady(YBatch(fed \div TPBUFSIZE)) => outY = YBatch(fed \div TPBUFSIZE)[1]

(***************************************************************************)
(* C5. The call that completes a batch reports on each axis the trimmed    *)
(* mean of that axis: 4 lowest and 4 highest of the 16 sorted samples      *)
(* discarded, the sum of the other 8 divided by 8.                         *)
(***************************************************************************)
ReportsTrimmedMean ==
    BatchDone =>
        /\ outX = TrimmedMean(XBatch(fed \div TPBUFSIZE))
        /\ outY = TrimmedMean(YBatch(fed \div TPBUFSIZE))

(***************************************************************************)
(* C6. Two batches with the same sorted middle 8 samples on an axis, which *)
(* differ only in the 4 smallest and the 4 largest, give the same filtered *)
(* value on that axis: the call completing the second batch reports what   *)
(* the first batch gave.                                                   *)
(***************************************************************************)
SpikesDoNotMatter ==
    [][(fed = 2 * TPBUFSIZE /\ intTP /\ op' = "TouchPanelA2DFiltered")
        => /\ SortedMiddle(XBatch(1)) = SortedMiddle(XBatch(2)) => outX' = outX
           /\ SortedMiddle(YBatch(1)) = SortedMiddle(YBatch(2)) => outY' = outY]_vars

(***************************************************************************)
(* TouchCode_t TouchPanelGet(point_t * TouchPoint): the blocking query.    *)
(* The caller's thread is at get.pc: "poll" before the TouchPanelReadable  *)
(* call of an iteration, "callback" before the idle callback, "done" once  *)
(* the call has returned get.result.                                       *)
(***************************************************************************)
IdleHandlers == {NoHandler, "handler"}

\* What an idle handler can return to the driver.
IdleResults == {"noerror", "external_abort"}

GetCall(hasTouchPoint) ==
    /\ get.pc \in {"idle", "done"}
    /\ op' = "TouchPanelGet"
    /\ get' = [pc |-> "poll", hasTouchPoint |-> hasTouchPoint,
               t |-> "no_touch", result |-> "no_touch"]
    /\ UNCHANGED <<filterVars, hwVars, feedVars, pollVars, queryVars, calVars, tpMatrix>>
    /\ UNCHANGED <<idle_callback, wait, cal, log>>

\* An iteration that leaves the idle callback out.
GetPollSkipsCallback ==
    /\ get.pc = "poll"
    /\ TouchPanelReadable(get.hasTouchPoint)
    /\ get' = IF ret' # "no_touch"
              THEN [get EXCEPT !.t = ret', !.pc = "done", !.result = ret']
              ELSE [get EXCEPT !.t = ret']
    /\ UNCHANGED <<pollVars, idle_callback, wait, cal, log>>

\* t = TouchPanelReadable(TouchPoint); if (t != no_touch) break;
GetPoll ==
    /\ get.pc = "poll"
    /\ TouchPanelReadable(get.hasTouchPoint)
    /\ get' = IF ret' # "no_touch"
              THEN [get EXCEPT !.t = ret', !.pc = "done", !.result = ret']
              ELSE IF idle_callback # NoHandler
                   THEN [get EXCEPT !.t = ret', !.pc = "callback"]
                   ELSE [get EXCEPT !.t = ret']
    /\ UNCHANGED <<pollVars, idle_callback, wait, cal, log>>

\* if (external_abort == (*idle_callback)(touch_wait)) return no_touch;
GetIdle(r) ==
    /\ get.pc = "callback"
    /\ op' = "idle_callback"
    /\ get' = IF r = "external_abort"
              THEN [get EXCEPT !.pc = "done", !.result = "no_touch"]
              ELSE [get EXCEPT !.pc = "poll"]
    /\ UNCHANGED <<filterVars, hwVars, feedVars, pollVars, queryVars, calVars, tpMatrix>>
    /\ UNCHANGED <<idle_callback, wait, cal, log>>

InitGet ==
    /\ InitDriver
    /\ NoFeed
    /\ NoPolls
    /\ NoPreemption
    /\ displayPtr = ExampleDisplay
    /\ screenPtr = ExampleScreen
    /\ idle_callback \in IdleHandlers
    /\ get = NoGet
    /\ cal = NoCal
    /\ log = NoLog
    /\ wait = NoWait

GetStart == \E hasTouchPoint \in BOOLEAN : GetCall(hasTouchPoint)

GetCallback == \E r \in IdleResults : GetIdle(r)

\* Between two blocking queries the application restores its saved matrix.
GetRestore ==
    /\ get.pc \in {"idle", "done"}
    /\ Restore
    /\ UNCHANGED <<pollVars, callVars>>

GetSample == Sample /\ UNCHANGED <<pollVars, callVars>>

GetTick == Tick /\ UNCHANGED <<pollVars, callVars>>

NextGet ==
    /\ \/ GetStart
       \/ GetPoll
       \/ GetCallback
       \/ GetRestore
       \/ GetSample
       \/ GetTick
    /\ UNCHANGED <<modeVars, irqVars>>

SpecGet == InitGet /\ [][NextGet]_vars

(***************************************************************************)
(* RetCode_t TouchPanelCalibrate(msg, matrix, maxwait_s).  The caller's    *)
(* thread is at cal.pc inside the loop cal.loop: "test" before a loop      *)
(* condition, "wait" before wait_ms(20), "callback" before the idle        *)
(* callback, "draw" before a target is drawn, "record" before pSample[i]   *)
(* is stored, "final" before the closing test, "done" after the return.    *)
(* pTest is displayPtr, pSample is screenPtr, x and y are outX and outY;   *)
(* cal.timeout is the reading of the Timer timeout in milliseconds.  log   *)
(* keeps what the session has done: targets drawn; quiet, a poll has       *)
(* reported no_touch since the last sample was recorded; overlap, a sample *)
(* was recorded without one; starved, a wait for a touch ended on the      *)
(* timeout; late, a loop condition has found the timeout reached; aborted, *)
(* the idle callback has returned external_abort; matrix, the active       *)
(* matrix when the session began; got, for each target, the x and y that a *)
(* poll of its wait for a touch wrote when it completed a batch.           *)
(***************************************************************************)
WAIT_ms == 20
DELAY_LOOPS == 100
TARGETS == 3
ScreenWidth == 480
ScreenHeight == 272

pTest ==
    <<Pt(50, 50), Pt(ScreenWidth - 50, ScreenHeight \div 2),
      Pt(ScreenWidth \div 2, ScreenHeight - 50)>>

\* point_t pTest[3], pSample[3] before anything is stored in them.
Indeterminate == [k \in 1..TARGETS |-> Pt(NoValue, NoValue)]

\* Where the thread goes after the body of an iteration.
AfterBody ==
    IF cal.loop # "delay" THEN [cal EXCEPT !.pc = "test"]
    ELSE IF cal.t + 1 < DELAY_LOOPS THEN [cal EXCEPT !.pc = "wait", !.t = cal.t + 1]
    ELSE IF cal.i + 1 < TARGETS
         THEN [cal EXCEPT !.pc = "draw", !.loop = "touch", !.i = cal.i + 1, !.t = cal.t + 1]
         ELSE [cal EXCEPT !.pc = "final", !.i = cal.i + 1, !.t = cal.t + 1]

CalibrateCall(maxwait_s, hasMatrixPtr) ==
    /\ cal.pc = "idle"
    /\ op' = "TouchPanelCalibrate"
    /\ cal' = [pc |-> "test", loop |-> "quiet", i |-> 0, t |-> 0, timeout |-> 0,
               maxwait_s |-> maxwait_s, hasMatrixPtr |-> hasMatrixPtr]
    /\ outX' = NoValue
    /\ outY' = NoValue
    /\ displayPtr' = Indeterminate
    /\ screenPtr' = Indeterminate
    /\ log' = [NoLog EXCEPT !.matrix = tpMatrix]
    /\ UNCHANGED <<filterVars, hwVars, feedVars, pollVars, tpMatrix>>
    /\ UNCHANGED <<panelTouched, touchInfo0, ret, touchPoint, retCode, matrixOut, setMatrixArg>>
    /\ UNCHANGED <<idle_callback, wait, get>>

\* The loop spins on this code: the first and the third loop while the
\* filter reports anything but no_touch, the second while it reports no_touch.
Spins(loop, code) == IF loop = "touch" THEN code = "no_touch" ELSE code # "no_touch"

\* while (TouchPanelA2DFiltered(&x, &y) && timeout.read() < maxwait_s)
CalTest ==
    /\ cal.pc = "test"
    /\ TouchPanelA2DFiltered
    /\ cal' = IF Spins(cal.loop, ret') /\ cal.timeout < cal.maxwait_s * 1000
              THEN [cal EXCEPT !.pc = "wait"]
              ELSE IF cal.loop = "quiet" THEN [cal EXCEPT !.pc = "draw", !.loop = "touch"]
              ELSE IF cal.loop = "touch" THEN [cal EXCEPT !.pc = "record"]
              ELSE [cal EXCEPT !.pc = "wait", !.loop = "delay", !.t = 0]
    /\ log' = [log EXCEPT
                !.quiet = log.quiet \/ ret' = "no_touch",
                !.starved = log.starved \/ (cal.loop = "touch" /\ ret' = "no_touch"
                                                /\ cal.timeout >= cal.maxwait_s * 1000),
                !.late = log.late \/ (Spins(cal.loop, ret')
                                          /\ cal.timeout >= cal.maxwait_s * 1000),
                !.got = IF cal.loop = "touch" /\ intTP /\ touchSample + 1 = TPBUFSIZE
                        THEN {g \in log.got : g.i # cal.i}
                                 \cup {[i |-> cal.i, p |-> Pt(outX', outY')]}
                        ELSE log.got]
    /\ UNCHANGED <<pollVars, idle_callback, wait, get>>

\* wait_ms(20), with the ticker callbacks that run meanwhile; the timer
\* restarts at the end of the wait in which a callback sees the timeout.
CalWait ==
    /\ cal.pc = "wait"
    /\ op' = "wait_ms"
    /\ _TouchTicker(touchTimer + WAIT_ms * TOUCH_TICKER_uS)
    /\ cal' = IF idle_callback # NoHandler
              THEN [cal EXCEPT !.pc = "callback", !.timeout = cal.timeout + WAIT_ms]
              ELSE [AfterBody EXCEPT !.timeout = cal.timeout + WAIT_ms]
    /\ UNCHANGED <<xbuf, ybuf, lastX, lastY, hwVars, feedVars, pollVars, queryVars>>
    /\ UNCHANGED <<calVars, tpMatrix, idle_callback, wait, get, log>>

\* An idle callback whose external_abort is ignored.
CalIdleIgnoresAbort(r) ==
    /\ cal.pc = "callback"
    /\ op' = "idle_callback"
    /\ cal' = AfterBody
    /\ retCode' = retCode
    /\ log' = [log EXCEPT !.aborted = (r = "external_abort")]
    /\ UNCHANGED <<filterVars, hwVars, feedVars, pollVars, queryVars, tpMatrix>>
    /\ UNCHANGED <<matrixOut, setMatrixArg, displayPtr, screenPtr, idle_callback, wait, get>>

\* if (external_abort == (*idle_callback)(touchcal_wait)) return external_abort;
CalIdle(r) ==
    /\ cal.pc = "callback"
    /\ op' = "idle_callback"
    /\ IF r = "external_abort"
       THEN cal' = [cal EXCEPT !.pc = "done"] /\ retCode' = "external_abort"
       ELSE cal' = AfterBody /\ retCode' = retCode
    /\ log' = [log EXCEPT !.aborted = (r = "external_abort")]
    /\ UNCHANGED <<filterVars, hwVars, feedVars, pollVars, queryVars, tpMatrix>>
    /\ UNCHANGED <<matrixOut, setMatrixArg, displayPtr, screenPtr, idle_callback, wait, get>>

\* cls() and the pTest assignments before the first target; the two line() calls.
CalDraw ==
    /\ cal.pc = "draw"
    /\ op' = "line"
    /\ displayPtr' = IF cal.i = 0 THEN pTest ELSE displayPtr
    /\ log' = [log EXCEPT !.drawn = log.drawn + 1]
    /\ cal' = [cal EXCEPT !.pc = "test"]
    /\ UNCHANGED <<filterVars, hwVars, feedVars, pollVars, queryVars, tpMatrix>>
    /\ UNCHANGED <<retCode, matrixOut, setMatrixArg, screenPtr, idle_callback, wait, get>>

\* A session that goes straight from one target's sample to the next target.
CalRecordSkipsRelease ==
    /\ cal.pc = "record"
    /\ op' = "pSample"
    /\ screenPtr' = [screenPtr EXCEPT ![cal.i + 1] = Pt(outX, outY)]
    /\ log' = [log EXCEPT !.quiet = FALSE,
                          !.overlap = log.overlap \/ (cal.i > 0 /\ ~log.quiet)]
    /\ cal' = IF cal.i + 1 < TARGETS
              THEN [cal EXCEPT !.pc = "draw", !.i = cal.i + 1]
              ELSE [cal EXCEPT !.pc = "final", !.i = cal.i + 1]
    /\ UNCHANGED <<filterVars, hwVars, feedVars, pollVars, queryVars, tpMatrix>>
    /\ UNCHANGED <<retCode, matrixOut, setMatrixArg, displayPtr, idle_callback, wait, get>>

\* pSample[i].x = x; pSample[i].y = y;
CalRecord ==
    /\ cal.pc = "record"
    /\ op' = "pSample"
    /\ screenPtr' = [screenPtr EXCEPT ![cal.i + 1] = Pt(outX, outY)]
    /\ log' = [log EXCEPT !.quiet = FALSE,
                          !.overlap = log.overlap \/ (cal.i > 0 /\ ~log.quiet)]
    /\ cal' = [cal EXCEPT !.pc = "test", !.loop = "release"]
    /\ UNCHANGED <<filterVars, hwVars, feedVars, pollVars, queryVars, tpMatrix>>
    /\ UNCHANGED <<retCode, matrixOut, setMatrixArg, displayPtr, idle_callback, wait, get>>

\* A session that computes the calibration whatever the timer reads.
CalFinishIgnoresTimeout ==
    /\ cal.pc = "final"
    /\ cal' = [cal EXCEPT !.pc = "done"]
    /\ TouchPanelComputeCalibration(cal.hasMatrixPtr)
    /\ UNCHANGED <<pollVars, idle_callback, wait, get, log>>

\* if (timeout.read() >= maxwait_s) return touch_cal_timeout;
\* else return TouchPanelComputeCalibration(pTest, pSample, matrix);
CalFinish ==
    /\ cal.pc = "final"
    /\ cal' = [cal EXCEPT !.pc = "done"]
    /\ IF cal.timeout >= cal.maxwait_s * 1000
       THEN /\ op' = "TouchPanelCalibrate"
            /\ retCode' = "touch_cal_timeout"
            /\ UNCHANGED <<filterVars, hwVars, feedVars, queryVars, tpMatrix>>
            /\ UNCHANGED <<matrixOut, setMatrixArg, displayPtr, screenPtr>>
       ELSE TouchPanelComputeCalibration(cal.hasMatrixPtr)
    /\ UNCHANGED <<pollVars, idle_callback, wait, get, log>>

(***************************************************************************)
(* One calibration session: the application may first restore a saved      *)
(* matrix, then calls TouchPanelCalibrate.  The user puts a finger on a    *)
(* target once it is on the screen and keeps it there for a burst of       *)
(* samples, one ready at every poll, or walks away: feed is the bursts of  *)
(* the targets the user touches, in order.                                 *)
(***************************************************************************)
ShortWait == 1
MidWait == 7
LongWait == 8
Linger == 2

\* The raw position of a finger on target i.
FingerAt(i) == ExampleScreen[IF i < TARGETS THEN i + 1 ELSE TARGETS]

\* A burst fills one batch, or lasts Linger samples longer.
BurstLengths == {TPBUFSIZE, TPBUFSIZE + Linger}

Burst(i, n) == [k \in 1..n |-> FingerAt(i)]

FingerFeeds ==
    {<<>>}
        \cup {Burst(0, a) : a \in BurstLengths}
        \cup {Burst(0, a) \o Burst(1, b) : a \in BurstLengths, b \in BurstLengths}
        \cup {Burst(0, a) \o Burst(1, b) \o Burst(2, c) :
                a \in BurstLengths, b \in BurstLengths, c \in BurstLengths}

InitCalibrate ==
    /\ InitDriver
    /\ NoPolls
    /\ NoPreemption
    /\ displayPtr = Indeterminate
    /\ screenPtr = Indeterminate
    /\ feed \in FingerFeeds
    /\ fed = 0
    /\ idle_callback \in IdleHandlers
    /\ get = NoGet
    /\ cal = NoCal
    /\ log = NoLog
    /\ wait = NoWait

CalPrepare ==
    /\ cal.pc = "idle"
    /\ op = "TouchPanelInit"
    /\ Restore
    /\ UNCHANGED <<pollVars, callVars>>

CalStart ==
    \E maxwait_s \in {ShortWait, MidWait, LongWait}, hasMatrixPtr \in BOOLEAN :
        CalibrateCall(maxwait_s, hasMatrixPtr)

\* The finger is on the target on the screen and the panel has a sample to convert.
FingerDown ==
    /\ cal.pc = "test"
    /\ cal.loop \in {"touch", "release"}
    /\ ~intTP
    /\ fed < Len(feed)
    /\ feed[fed + 1] = FingerAt(cal.i)

CalSample ==
    /\ FingerDown
    /\ Convert
    /\ UNCHANGED <<pollVars, callVars>>

CalPoll == ~FingerDown /\ CalTest

CalCallback == \E r \in IdleResults : CalIdle(r)

NextCalibrate ==
    /\ \/ CalPrepare
       \/ CalStart
       \/ CalSample
       \/ CalPoll
       \/ CalWait
       \/ CalCallback
       \/ CalDraw
       \/ CalRecord
       \/ CalFinish
    /\ UNCHANGED <<modeVars, irqVars>>

SpecCalibrate == InitCalibrate /\ [][NextCalibrate]_vars

(***************************************************************************)
(* The application installs saved matrices while the touch channel runs:   *)
(* polls, conversions and ticker steps in any order.                       *)
(***************************************************************************)
NextMatrix ==
    /\ \/ SetMatrixCall
       \/ Sample
       \/ Tick
       \/ TouchPanelA2DFiltered
    /\ UNCHANGED <<pollVars, callVars, modeVars, irqVars>>

SpecMatrix == Init /\ [][NextMatrix]_vars

(***************************************************************************)
(* RetCode_t clsw(region) and its bool _WaitWhileReg(0x8E, 0x80): clsw     *)
(* starts the clear, which sets bit 7 of register 0x8E, and waits for the  *)
(* controller to clear it.  wait.busy is how many more reads of the        *)
(* register find the bit set.  The thread is at wait.pc: "test" before the *)
(* loop condition, "callback" before the idle callback, "exit" after the   *)
(* loop, "return" back in clsw, "done" after clsw has returned wait.clsw.  *)
(***************************************************************************)
POLLWAITuSec == 10

\* int i = 20000/POLLWAITuSec;
Window == 20000 \div POLLWAITuSec

\* How long the controller stays busy, in reads of the register.
BusyReads == {0, 1, Window - 1, Window, Window + 1}

waitRest == <<filterVars, hwVars, feedVars, pollVars, queryVars, calVars, tpMatrix>>

ClswCall(busy) ==
    /\ wait.pc \in {"idle", "done"}
    /\ op' = "clsw"
    /\ wait' = [pc |-> "test", i |-> Window, busy |-> busy, cleared |-> FALSE,
                result |-> FALSE, clsw |-> "noerror"]
    /\ UNCHANGED <<waitRest, idle_callback, get, cal, log>>

\* while (i-- && ReadCommand(reg) & mask) { wait_us(POLLWAITuSec); ...
WaitTest ==
    /\ wait.pc = "test"
    /\ op' = "_WaitWhileReg"
    /\ wait' = IF wait.i = 0 THEN [wait EXCEPT !.i = wait.i - 1, !.pc = "exit"]
               ELSE IF wait.busy = 0
                    THEN [wait EXCEPT !.i = wait.i - 1, !.cleared = TRUE, !.pc = "exit"]
                    ELSE [wait EXCEPT !.i = wait.i - 1, !.busy = wait.busy - 1,
                                      !.pc = IF idle_callback # NoHandler
                                             THEN "callback" ELSE "test"]
    /\ UNCHANGED <<waitRest, idle_callback, get, cal, log>>

\* if (external_abort == (*idle_callback)(command_wait)) return false;
WaitIdle(r) ==
    /\ wait.pc = "callback"
    /\ op' = "idle_callback"
    /\ wait' = IF r = "external_abort"
               THEN [wait EXCEPT !.result = FALSE, !.pc = "return"]
               ELSE [wait EXCEPT !.pc = "test"]
    /\ UNCHANGED <<waitRest, idle_callback, get, cal, log>>

\* if (i) return true; else return false;
WaitExit ==
    /\ wait.pc = "exit"
    /\ op' = "_WaitWhileReg"
    /\ wait' = [wait EXCEPT !.result = (wait.i # 0), !.pc = "return"]
    /\ UNCHANGED <<waitRest, idle_callback, get, cal, log>>

\* if (!_WaitWhileReg(0x8E, 0x80)) return external_abort; return noerror;
ClswReturn ==
    /\ wait.pc = "return"
    /\ op' = "clsw"
    /\ wait' = [wait EXCEPT !.clsw = IF wait.result THEN "noerror" ELSE "external_abort",
                            !.pc = "done"]
    /\ UNCHANGED <<waitRest, idle_callback, get, cal, log>>

InitWait ==
    /\ InitDriver
    /\ NoFeed
    /\ NoPolls
    /\ NoPreemption
    /\ displayPtr = ExampleDisplay
    /\ screenPtr = ExampleScreen
    /\ idle_callback \in IdleHandlers
    /\ get = NoGet
    /\ cal = NoCal
    /\ log = NoLog
    /\ wait = NoWait

ClswStart == \E busy \in BusyReads : wait.pc = "idle" /\ ClswCall(busy)

WaitCallback == \E r \in IdleResults : WaitIdle(r)

NextWait ==
    /\ \/ ClswStart
       \/ WaitTest
       \/ WaitCallback
       \/ WaitExit
       \/ ClswReturn
    /\ UNCHANGED <<modeVars, irqVars>>

SpecWait == InitWait /\ [][NextWait]_vars

(***************************************************************************)
(* The order of the codes successive polls report: held or release follows *)
(* touch and held, no_touch follows release, and touch follows only        *)
(* no_touch.                                                               *)
(***************************************************************************)
ContactOrder ==
    /\ ret \in {"touch", "held"} => ret' \in {"held", "release"}
    /\ ret = "release" => ret' = "no_touch"
    /\ ret = "no_touch" => ret' \in {"no_touch", "touch"}

\* The number of polls made while the contact persisted after touch was reported.
PersistPolls == Len(feed) - TPBUFSIZE

(***************************************************************************)
(* C7. One contact, polled less than NOTOUCH_TIMEOUT_uS apart: the polls   *)
(* report touch, held for exactly the PersistPolls polls made while the    *)
(* contact persisted, release, no_touch.                                   *)
(***************************************************************************)
ContactReportsHeldPerPersistPoll ==
    [][op' = "TouchPanelA2DFiltered"
        => /\ ContactOrder
           /\ ret' = "release" => heldReports' = PersistPolls]_vars

(***************************************************************************)
(* C7, amended.  One contact, polled less than NOTOUCH_TIMEOUT_uS apart:   *)
(* the polls report touch, held more than PersistPolls times (every poll   *)
(* between the lift and the watchdog timeout reports held as well, and     *)
(* there is at least one), release, no_touch.                              *)
(***************************************************************************)
ContactReportsHeldUntilTimeout ==
    [][op' = "TouchPanelA2DFiltered"
        => /\ ContactOrder
           /\ ret' = "release" => heldReports' > PersistPolls]_vars

ContactReportsHeldUntilTimeoutWitness ==
    /\ op = "TouchPanelA2DFiltered"
    /\ PersistPolls = MaxHeld
    /\ fed = Len(feed)
    /\ heldReports > PersistPolls
    /\ ret = "no_touch"
    /\ touchState = "no_touch"

(***************************************************************************)
(* C8. In every execution, whatever the polling cadence: held is reported  *)
(* only after touch or held, a reported touch or held is followed by held  *)
(* or by release, and after a release the next report is no_touch, so that *)
(* release is reported once and no_touch comes before the next touch.      *)
(***************************************************************************)
ReportsFollowContactOrder ==
    [][op' = "TouchPanelA2DFiltered"
        => /\ ret' = "held" => ret \in {"touch", "held"}
           /\ ret \in {"touch", "held"} => ret' \in {"held", "release"}
           /\ ret = "release" => ret' = "no_touch"]_vars

\* The ticker step that is about to run finds the timer over the threshold.
TimedOut == touchTimer + TickStride * TOUCH_TICKER_uS > NOTOUCH_TIMEOUT_uS

\* The step reads no sample: it is a ticker step or a poll that finds none ready.
ReadsNoSample == op' = "_TouchTicker" \/ (op' = "TouchPanelA2DFiltered" /\ ~intTP)

(***************************************************************************)
(* C9. When the state is held and the timer passes NOTOUCH_TIMEOUT_uS, the *)
(* ticker moves the state to release and consumes no sample; from release, *)
(* a step that reads no sample leaves release only for no_touch, and the   *)
(* next poll without a sample, or the next timeout, does take it there.    *)
(***************************************************************************)
HeldTimesOutToRelease ==
    [][/\ (op' = "_TouchTicker" /\ touchState = "held" /\ TimedOut)
            => (touchState' = "release" /\ UNCHANGED <<intTP, tpReg, xbuf, ybuf>>)
       /\ (touchState = "release" /\ ReadsNoSample)
            => touchState' \in {"release", "no_touch"}
       /\ (touchState = "release" /\ op' = "TouchPanelA2DFiltered" /\ ~intTP)
            => touchState' = "no_touch"
       /\ (touchState = "release" /\ op' = "_TouchTicker" /\ TimedOut)
            => touchState' = "no_touch"]_vars

HeldTimesOutToReleaseWitness ==
    /\ op = "TouchPanelA2DFiltered"
    /\ ret = "release"
    /\ touchState = "no_touch"
    /\ ~intTP

(***************************************************************************)
(* C10. Whenever the watchdog changes an active state, touch as well as    *)
(* held, it changes it to release: it never takes touch to no_touch.       *)
(***************************************************************************)
WatchdogReleasesActiveStates ==
    [][(op' = "_TouchTicker" /\ Active(touchState) /\ touchState' # touchState)
        => touchState' = "release"]_vars

GetReturnsOnActivityOrAbort ==
    [][/\ (get.pc = "poll" /\ get'.pc = "done")
            => (op' = "TouchPanelReadable" /\ get'.result = ret' /\ ret' # "no_touch")
       /\ (get.pc = "poll" /\ op' = "TouchPanelReadable" /\ ret' = "no_touch")
            => get'.pc = (IF idle_callback # NoHandler THEN "callback" ELSE "poll")
       /\ (get.pc = "callback" /\ get'.pc # "callback")
            => (op' = "idle_callback" /\ UNCHANGED <<filterVars, hwVars, queryVars>>)
       /\ (get.pc # "done" /\ get'.pc = "done" /\ get'.result = "no_touch")
            => (get.pc = "callback" /\ op' = "idle_callback")]_vars

GetReturnsOnActivityOrAbortWitness ==
    /\ get.pc = "done"
    /\ get.result = "no_touch"
    /\ op = "idle_callback"
    /\ ret = "no_touch"
    /\ idle_callback # NoHandler

(***************************************************************************)
(* C13. A TouchPanelCalibrate session in which a wait for a touch ended on *)
(* the timeout returns touch_cal_timeout, has not run the solver, and      *)
(* leaves the matrix that was active when it began.                        *)
(***************************************************************************)
StarvedSessionReportsTimeout ==
    (cal.pc = "done" /\ log.starved)
        => /\ retCode = "touch_cal_timeout"
           /\ op # "TouchPanelComputeCalibration"
           /\ tpMatrix = log.matrix

(***************************************************************************)
(* C14. Once a loop condition of TouchPanelCalibrate has found the timeout *)
(* reached, the next step of the session is the return of                  *)
(* touch_cal_timeout: no target drawn, no sample recorded, no wait.        *)
(***************************************************************************)
TimeoutAbortsAtOnce ==
    [][(log.late /\ cal.pc # "done" /\ cal' # cal)
        => (cal'.pc = "done" /\ retCode' = "touch_cal_timeout"
                /\ log'.drawn = log.drawn /\ screenPtr' = screenPtr)]_vars

(***************************************************************************)
(* C15. With an idle callback registered, every wait of a                  *)
(* TouchPanelCalibrate loop is followed by the callback; once the callback *)
(* has returned external_abort the session has returned external_abort,    *)
(* in that very step, with no further target drawn, the solver not run and *)
(* the active matrix as it was when the session began.                     *)
(***************************************************************************)
AbortEndsSession ==
    [][/\ (cal.pc = "wait" /\ cal' # cal /\ idle_callback # NoHandler)
            => cal'.pc = "callback"
       /\ (cal.pc = "callback" /\ cal' # cal) => op' = "idle_callback"
       /\ log'.aborted
            => /\ cal'.pc = "done"
               /\ retCode' = "external_abort"
               /\ op' \in {"idle_callback", "HwSample"}
               /\ log'.drawn = log.drawn
               /\ tpMatrix' = log'.matrix]_vars

AbortEndsSessionWitness ==
    /\ cal.pc = "done"
    /\ log.aborted
    /\ retCode = "external_abort"
    /\ cal.loop = "delay"
    /\ log.drawn = 2
    /\ cal.timeout < cal.maxwait_s * 1000

(***************************************************************************)
(* C16. When a TouchPanelCalibrate session has run the solver, every       *)
(* sample after the first was recorded after a poll had reported no_touch  *)
(* since the previous sample was recorded.                                 *)
(***************************************************************************)
TargetsNeedSeparateTouches ==
    (cal.pc = "done" /\ op = "TouchPanelComputeCalibration") => ~log.overlap

TargetsNeedSeparateTouchesWitness ==
    /\ cal.pc = "done"
    /\ op = "TouchPanelComputeCalibration"
    /\ retCode = "noerror"
    /\ log.drawn = TARGETS
    /\ tpMatrix = CalMatrix(pTest, screenPtr)
    /\ tpMatrix # log.matrix
    /\ fed = Len(feed)

(***************************************************************************)
(* C17. While the active matrix has Divider = 0 the state of the touch     *)
(* state machine is no_cal, and no_cal is what TouchPanelA2DFiltered       *)
(* reports: neither the watchdog nor a sample replaces it.                 *)
(***************************************************************************)
NoCalIsPermanent ==
    tpMatrix.Divider = 0
        => /\ touchState = "no_cal"
           /\ op = "TouchPanelA2DFiltered" => ret = "no_cal"

(***************************************************************************)
(* C18. TouchPanelSetMatrix given NULL or a matrix with Divider = 0        *)
(* returns bad_parameter and leaves the active matrix and the touch state; *)
(* given any other matrix it makes the active matrix equal to it in all    *)
(* seven fields, sets the state to no_touch and returns noerror.           *)
(***************************************************************************)
SetMatrixChecksDivider ==
    [][op' = "TouchPanelSetMatrix"
        => IF setMatrixArg' = NullPtr \/ setMatrixArg'.Divider = 0
           THEN /\ retCode' = "bad_parameter"
                /\ tpMatrix' = tpMatrix
                /\ touchState' = touchState
           ELSE /\ retCode' = "noerror"
                /\ tpMatrix' = setMatrixArg'
                /\ touchState' = "no_touch"]_vars

SetMatrixChecksDividerWitness ==
    /\ op = "TouchPanelSetMatrix"
    /\ setMatrixArg # NullPtr
    /\ setMatrixArg.Divider = 0
    /\ retCode = "bad_parameter"
    /\ touchState = "held"
    /\ tpMatrix = CalMatrix(ExampleDisplay, ExampleScreen)

(***************************************************************************)
(* C19. When clsw has returned: _WaitWhileReg returned true exactly when a *)
(* read within the window of Window polls found the flag clear, and false  *)
(* when the window ran out with the flag still set; and clsw returned      *)
(* external_abort exactly when _WaitWhileReg returned false.               *)
(***************************************************************************)
RegisterTimeoutIsReported ==
    wait.pc = "done"
        => /\ wait.result = wait.cleared
           /\ wait.clsw = (IF wait.result THEN "noerror" ELSE "external_abort")

(***************************************************************************)
(* C20. The display point a TouchPanelReadable call computes from the      *)
(* filtered sample with an installed matrix (Divider # 0) lies inside the  *)
(* screen: 0 <= x < width and 0 <= y < height.                             *)
(***************************************************************************)
TouchPointInsideScreen ==
    (op = "TouchPanelReadable" /\ tpMatrix.Divider # 0
            /\ touchInfo0.touchCode \in {"touch", "held", "release"})
        => /\ 0 <= touchInfo0.coordinates.x
           /\ touchInfo0.coordinates.x < ScreenWidth
           /\ 0 <= touchInfo0.coordinates.y
           /\ touchInfo0.coordinates.y < ScreenHeight


(***************************************************************************)
(* C21. Capacitive panel: the coordinates and the touch code that one      *)
(* TouchPanelReadable call returns belong to the same interrupt report,    *)
(* wherever the interrupt preempts the call.                               *)
(***************************************************************************)
Delivered == {getTouchPositions(feed[k]) : k \in 1..fed}

ReadableReturnsOneReport ==
    (rd.pc = "done" /\ rd.hasTouchPoint /\ ret # "no_touch")
        => [coordinates |-> touchPoint[1], touchCode |-> ret] \in Delivered

(***************************************************************************)
(* C22. Capacitive panel: every touch or release report of channel 0 is    *)
(* returned by a TouchPanelReadable call; when a new report replaces it in *)
(* touchInfo[0], a call has returned it or has taken it and is about to.   *)
(***************************************************************************)
Edge(k) == getTouchPositions(feed[k]).touchCode \in {"touch", "release"}

NoEdgeIsLost ==
    \A k \in 1..(fed - 1) :
        Edge(k) => (k \in reports \/ (rd.pc = "return" /\ rd.k = k))


(***************************************************************************)
(* C23. On a resistive panel the detailed TouchPanelInit returns           *)
(* bad_parameter only for an argument outside its documented values, and   *)
(* with bTpEnable == TP_DISABLE and the other arguments documented it      *)
(* returns noerror with the ticker detached and the touch timer stopped.   *)
(***************************************************************************)
Documented(args) ==
    /\ args[1] \in {TP_ENABLE, TP_DISABLE}
    /\ args[2] \in {TP_MODE_AUTO, TP_MODE_MANUAL}
    /\ args[3] \in {TP_DEBOUNCE_OFF, TP_DEBOUNCE_ON}
    /\ args[4] \in 0..TP_MANUAL_LATCH_Y
    /\ args[5] \in 0..TP_ADC_CLKDIV_128
    /\ args[6] \in {16 * n : n \in 0..7}

InitAcceptsDocumentedValues ==
    (op = "TouchPanelInit" /\ initArgs # NoArgs /\ useTouchPanel = "TP_RES")
        => /\ retCode = "bad_parameter" => ~Documented(initArgs)
           /\ (Documented(initArgs) /\ initArgs[1] = TP_DISABLE)
                  => (retCode = "noerror" /\ ~tickerOn /\ ~timerOn)


(***************************************************************************)
(* C24. A TouchPanelA2DFiltered call made in state touch or held that does *)
(* not complete a batch, with or without a new sample, returns held with   *)
(* the x and y of the most recently completed batch: lastX and lastY,      *)
(* which only a completed batch sets, to the values it reports.            *)
(***************************************************************************)
CompletesBatch == intTP /\ touchSample + 1 = TPBUFSIZE

PendingCallReportsHeld ==
    [][/\ (op' = "TouchPanelA2DFiltered" /\ Active(touchState) /\ ~CompletesBatch)
            => (ret' = "held" /\ outX' = lastX /\ outY' = lastY)
       /\ (op' = "TouchPanelA2DFiltered" /\ CompletesBatch)
            => (lastX' = outX' /\ lastY' = outY')
       /\ ~(op' = "TouchPanelA2DFiltered" /\ CompletesBatch)
            => (lastX' = lastX /\ lastY' = lastY)]_vars

PendingCallReportsHeldWitness ==
    /\ op = "TouchPanelA2DFiltered"
    /\ ret = "held"
    /\ touchSample \in 1..(TPBUFSIZE - 1)
    /\ ~intTP
    /\ lastX > 0
    /\ outX = lastX
    /\ outY = lastY


(***************************************************************************)
(* C25. With raw coordinates in 0..1023 and targets inside 800 x 480, no   *)
(* product or sum of TouchPanelComputeCalibration, and none of the         *)
(* transform applied to a raw sample of that range, leaves the signed      *)
(* 32-bit range.                                                           *)
(***************************************************************************)
Terms(m, a2d) ==
    {m.An, m.Bn, m.Cn, m.Dn, m.En, m.Fn, m.Divider,
     Add(Add(Mul(m.An, a2d.x), Mul(m.Bn, a2d.y)), m.Cn),
     Add(Add(Mul(m.Dn, a2d.x), Mul(m.En, a2d.y)), m.Fn)}

ArithmeticFitsInt32 ==
    /\ CalDivider(screenPtr) # OVERFLOW
    /\ op = "TouchPanelComputeCalibration" => OVERFLOW \notin Terms(tpMatrix, Pt(0, 0))
    /\ op = "transform"
           => /\ OVERFLOW \notin Terms(tpMatrix, Pt(outX, outY))
              /\ touchInfo0.coordinates.x # OVERFLOW
              /\ touchInfo0.coordinates.y # OVERFLOW

\* A transform whose sum of the two products is within a quarter of the limit.
ArithmeticFitsInt32Witness ==
    /\ op = "transform"
    /\ Add(Mul(tpMatrix.An, outX), Mul(tpMatrix.Bn, outY)) > 3 * (INT_MAX \div 4)
    /\ retCode = "noerror"


(***************************************************************************)
(* C26. The call that completes a batch whose samples are all in 0..1023   *)
(* reports on each axis a value in 0..1023 that lies between the smallest  *)
(* and the largest sample of that axis.                                    *)
(***************************************************************************)
Within(v, b) == /\ v \in 0..1023
                /\ Ranked(b, 1) <= v
                /\ v <= Ranked(b, TPBUFSIZE)

FilteredIsARawSample ==
    BatchDone =>
        /\ Within(outX, XBatch(fed \div TPBUFSIZE))
        /\ Within(outY, YBatch(fed \div TPBUFSIZE))


(***************************************************************************)
(* C27. After the lift a caller that keeps polling TouchPanelA2DFiltered   *)
(* while the ticker runs receives no_touch after at most one release       *)
(* report: no second poll after the lift returns release, and a poll       *)
(* returning no_touch follows.                                             *)
(***************************************************************************)
PollReturned(code) == op = "TouchPanelA2DFiltered" /\ ret = code

LiftedPollsReachNoTouch == Lifted ~> PollReturned("no_touch")

OneReleaseAfterLift == releaseReports <= 1


(***************************************************************************)
(* C28. Wherever _TouchTicker preempts TouchPanelA2DFiltered, touchSample  *)
(* is in 0..TPBUFSIZE-1 at every write into xbuf and ybuf, it is 0 when a  *)
(* call that completed a batch clears the flag and returns, and it is 0    *)
(* when the ticker returns from a timeout.                                 *)
(***************************************************************************)
IndexStaysInBounds ==
    /\ flt.pc \in {"ybuf", "xbuf"} => touchSample \in 0..(TPBUFSIZE - 1)
    /\ (flt.pc \in {"clear", "return", "done"} /\ flt.full)
           => touchSample = 0
    /\ (op = "_TouchTicker" /\ touchTimer = 0) => touchSample = 0

\* The ticker timed out between the entry of a call and its buffer writes,
\* with samples of the batch already stored, and the call writes at index 0.
IndexStaysInBoundsWitness ==
    /\ flt.pc = "xbuf"
    /\ flt.ret = "held"
    /\ touchState = "release"
    /\ touchSample = 0
    /\ xbuf[2] > 0


(***************************************************************************)
(* C29. TouchPanelCalibrate returns touch_cal_timeout only if one of its   *)
(* wait loops ended because the timer had reached maxwait_s: a session     *)
(* whose loops all ended on the report they waited for returns the result  *)
(* of TouchPanelComputeCalibration.                                        *)
(***************************************************************************)
TimeoutMeansALoopRanOut ==
    (cal.pc = "done" /\ retCode = "touch_cal_timeout") => log.late


(***************************************************************************)
(* C30. When TouchPanelCalibrate calls TouchPanelComputeCalibration, each  *)
(* of the three raw samples it passes is the x and y that a poll wrote on  *)
(* completing a batch while that sample's target was on the screen: none   *)
(* is an unwritten value, a value from before the session or the value of  *)
(* another target.                                                         *)
(***************************************************************************)
SamplesComeFromTheirTarget ==
    (cal.pc = "done" /\ op = "TouchPanelComputeCalibration")
        => \A k \in 1..TARGETS :
              /\ [i |-> k - 1, p |-> screenPtr[k]] \in log.got
              /\ screenPtr[k].x # NoValue
              /\ screenPtr[k].y # NoValue

\* A session has computed the calibration from three touches, the finger
\* lingering on each target after its batch was complete.
SamplesComeFromTheirTargetWitness ==
    /\ cal.pc = "done"
    /\ op = "TouchPanelComputeCalibration"
    /\ fed = 3 * (TPBUFSIZE + Linger)
    /\ screenPtr[1] # screenPtr[2]
    /\ screenPtr[2] # screenPtr[3]

====
